---- MODULE Spec2Model ----
(***************************************************************************)
(* State-machine model of the timer hooks of use-time-hooks.               *)
(*                                                                         *)
(*   useRetry           retry with backoff, cancel and reset               *)
(*   useBatchedUpdates  batching of updates with time/size/first triggers  *)
(*   useThrottle        at most one callback invocation per delay          *)
(*   useTimeout         a timeout with start, pause and reset              *)
(*   useDelayedState    a state whose updates are applied after a delay    *)
(*   useSequentialExecution  steps run one after another, each after its   *)
(*                      own timeout                                        *)
(*                                                                         *)
(* Host model.  JavaScript runs one handler at a time; a handler (an API   *)
(* call, a timer callback, the continuation of a settled promise) is one   *)
(* atomic action, together with the React commit it causes (functional     *)
(* setState updaters applied in call order, effects run).  Time is counted *)
(* in units of the hook's countdown polling period.  A timer is            *)
(* outstanding from setTimeout until it fires or is cleared; timers fire   *)
(* in order of due time and, for equal due times, in order of              *)
(* registration; time does not advance past a due timer, while API calls   *)
(* may happen at any moment.                                               *)
(***************************************************************************)
EXTENDS Integers, Sequences, FiniteSets, TLC

\* The polling periods of the countdowns, in milliseconds.  Each hook's
\* model counts time in units of its own polling period.
RetryPollMs == 100
BatchPollMs == 50
TimeoutPollMs == 100
DelayedPollMs == 100
SequentialPollMs == 100

Min(a, b) == IF a <= b THEN a ELSE b
Max(a, b) == IF a >= b THEN a ELSE b

NoTimer == 0

(***************************************************************************)
(* The host's timer queue: a sequence of outstanding timers in firing      *)
(* order.  Every timer is a record with fields id (the handle setTimeout   *)
(* returned) and wait (units until it is due); the other fields are the    *)
(* variables its callback closes over.                                     *)
(***************************************************************************)
TimerIds(q) == { q[i].id : i \in 1..Len(q) }

\* A handle that no outstanding timer and no ref uses.
FreshId(q, refs) ==
    CHOOSE i \in 1..(Len(q) + Cardinality(refs) + 1) :
        /\ i \notin TimerIds(q) \cup refs
        /\ \A j \in 1..(i - 1) : j \in TimerIds(q) \cup refs

\* setTimeout: the new timer goes after every timer due no later than it.
SetTimeout(q, t) ==
    LET k == Cardinality({ i \in 1..Len(q) : q[i].wait <= t.wait })
    IN  SubSeq(q, 1, k) \o <<t>> \o SubSeq(q, k + 1, Len(q))

\* clearTimeout: a no-op for a handle that is not outstanding.
ClearTimeout(q, id) == SelectSeq(q, LAMBDA t : t.id # id)

\* One unit of time passes for every outstanding timer.
Elapse(q) ==
    [ i \in 1..Len(q) |->
        [ q[i] EXCEPT !.wait = q[i].wait - 1, !.left = Max(0, q[i].left - 1) ] ]

TimerDue(q) == q # <<>> /\ q[1].wait = 0
CanElapse(q) == q # <<>> /\ q[1].wait > 0

(***************************************************************************)
(*                               useRetry                                  *)
(***************************************************************************)

\* The countdown polling period in time units.
RetryPoll == RetryPollMs \div RetryPollMs

\* Bounds of the useRetry model.
MaxRuns == 2            \* execute() calls per behaviour
MaxMaxAttempts == 1     \* largest maxAttempts option

\* The error the operation rejects with is a fresh value at every call: the
\* one of attempt n of run r.
Err(r, n) == << "error", r, n >>
CancelError == << "Operation cancelled", 0, 0 >>
NoError == << "null", 0, 0 >>
Success == << "success", 0, 0 >>

ShouldRetryPolicies == {"always", "never", "firstOnly"}

RetryOptionSets ==
    [ maxAttempts : 0..MaxMaxAttempts,
      initialDelay : {0, RetryPoll},
      backoffMultiplier : {2},
      maxDelay : {2 * RetryPoll},
      useExponentialBackoff : BOOLEAN,
      shouldRetry : ShouldRetryPolicies ]

VARIABLES
    opts,           \* the options of the useRetry instance
    state,          \* RetryState, as published
    timeoutRef,     \* handle of the retry-wait timer, or NoTimer
    countdownRef,   \* handle of the countdown poller, or NoTimer
    cancelledRef,   \* the cancellation flag
    retryTimers,    \* the host's timer queue
    runs,           \* one record per execute() call
    lastCall        \* the API call the last step was: "execute", "cancel",
                    \* "reset", or "none" for a step of the hook itself

retryVars ==
    << opts, state, timeoutRef, countdownRef, cancelledRef, retryTimers, runs,
       lastCall >>

VARIABLES
    batchOpts,             \* the options of the useBatchedUpdates instance
    pendingUpdates,        \* the pending batch
    timeUntilFlush,        \* the published countdown
    batchTimeoutRef,       \* handle of the auto-flush timer, or NoTimer
    batchCountdownRef,     \* handle of the countdown poller, or NoTimer
    startElapsed,          \* Date.now() - startTimeRef.current, capped
    isFirstUpdateRef,
    hasPendingUpdatesRef,
    mounted,               \* FALSE once the hook is unmounted
    batchTimers,           \* the host's timer queue
    added,                 \* number of addUpdate calls so far
    rerenders,             \* number of re-renders with changed options
    count,                 \* per update, how often the consumer received it
    calls,                 \* callback invocations made by the last action
    lastOp,                \* the last action, with its input and trigger
    windowAdds,            \* updates passed to addUpdate since the one that
                           \* last found the batch empty, that one included
    sinceFirst             \* time since that update, capped

batchVars ==
    << batchOpts, pendingUpdates, timeUntilFlush, batchTimeoutRef,
       batchCountdownRef, startElapsed, isFirstUpdateRef,
       hasPendingUpdatesRef, mounted, batchTimers, added, rerenders, count,
       calls, lastOp, windowAdds, sinceFirst >>

VARIABLES
    calcOpts,       \* the backoff options of a useRetry instance
    calcRetry,      \* 1-based number of the retry last scheduled, 0 if none
    calcDelay       \* the delay passed to onRetry and to setTimeout for it

calcVars == << calcOpts, calcRetry, calcDelay >>

VARIABLES
    thrDelay,       \* the delay argument of the useThrottle instance
    thrSinceRun,    \* Date.now() - lastRun.current, capped
    thrTimeoutRef,  \* handle of the trailing timer, or NoTimer
    thrTimers,      \* the host's timer queue
    thrMounted,     \* FALSE once the hook is unmounted
    thrCalled,      \* number of calls of the throttled function so far
    thrInvocations, \* number of callback invocations so far
    thrLast,        \* the latest callback invocation: its argument, what
                    \* made it, and the time since the invocation before
    thrSinceInvoke  \* time since the latest callback invocation, capped

throttleVars ==
    << thrDelay, thrSinceRun, thrTimeoutRef, thrTimers, thrMounted, thrCalled,
       thrInvocations, thrLast, thrSinceInvoke >>

VARIABLES
    tmoDelay,          \* the delay argument of the useTimeout instance
    tmoAutoStart,      \* the autoStart argument
    tmoIsRunning,      \* isRunning, as published
    tmoTimeRemaining,  \* timeRemaining, as published
    tmoTimeElapsed,    \* timeElapsed, as published
    tmoTimeoutRef,     \* handle of the timeout, or NoTimer
    tmoSinceStart,     \* Date.now() - startTimeRef.current, capped
    tmoRemainingRef,   \* remainingTimeRef.current
    tmoMounted,        \* FALSE once the hook is unmounted
    tmoTimers,         \* the host's timer queue
    tmoApiCalls,       \* number of start/pause/reset/toggle calls so far
    tmoInvoked,        \* callback invocations since mount or the last reset
    tmoCounting,       \* the user has the timeout counting: it was started
                       \* (by autoStart or start()) and has since neither
                       \* been paused or reset nor fired
    tmoRan,            \* time spent counting since mount or the last reset
    tmoWasReset        \* reset() has been called

timeoutVars ==
    << tmoDelay, tmoAutoStart, tmoIsRunning, tmoTimeRemaining, tmoTimeElapsed,
       tmoTimeoutRef, tmoSinceStart, tmoRemainingRef, tmoMounted, tmoTimers,
       tmoApiCalls, tmoInvoked, tmoCounting, tmoRan, tmoWasReset >>

VARIABLES
    dsDelay,            \* the delay argument of the useDelayedState instance
    dsImmediate,        \* the immediate argument
    dsValue,            \* value, as published
    dsImmediateValue,   \* immediateValue, as published
    dsIsPending,        \* isPending, as published
    dsTimeRemaining,    \* timeRemaining, as published
    dsTimeoutRef,       \* handle of the delayed-update timer, or NoTimer
    dsCountdownRef,     \* handle of the countdown poller, or NoTimer
    dsSinceStart,       \* Date.now() - startTimeRef.current, capped
    dsPendingValueRef,  \* pendingValueRef.current
    dsIsFirstUpdateRef, \* isFirstUpdateRef.current
    dsIsPendingRef,     \* isPendingRef.current
    dsMounted,          \* FALSE once the hook is unmounted
    dsTimers,           \* the host's timer queue
    dsCalls,            \* number of setValue/setImmediate/cancel calls
    dsLatest,           \* the value of the latest setValue or setImmediate
    dsSinceSet,         \* time since the latest setValue, capped
    dsAwaiting,         \* a setValue armed a delayed update, and since then
                        \* it was neither applied nor given up by cancel(),
                        \* setImmediate() or the unmount
    dsSuperseded        \* the value of the latest delayed update that a
                        \* setValue replaced while it was pending

delayedVars ==
    << dsDelay, dsImmediate, dsValue, dsImmediateValue, dsIsPending,
       dsTimeRemaining, dsTimeoutRef, dsCountdownRef, dsSinceStart,
       dsPendingValueRef, dsIsFirstUpdateRef, dsIsPendingRef, dsMounted,
       dsTimers, dsCalls, dsLatest, dsSinceSet, dsAwaiting, dsSuperseded >>

VARIABLES
    seqSteps,             \* the timeouts of the steps, in time units
    seqLoop,              \* the loop argument
    seqAutoStart,         \* the autoStart argument
    seqIsRunning,         \* isRunning, as published
    seqCurrentStepIndex,  \* currentStepIndex, as published (from 0)
    seqCyclesCompleted,   \* cyclesCompleted, as published
    seqTimeRemaining,     \* timeRemaining, as published
    seqTimeoutRef,        \* timeoutRef.current: a handle, or NoTimer
    seqSinceStart,        \* Date.now() - startTimeRef.current, capped
    seqCurrentTimeoutRef, \* currentTimeoutRef.current
    seqIsRunningRef,      \* isRunningRef.current
    seqMounted,           \* FALSE once the hook is unmounted
    seqTimers,            \* the host's timer queue
    seqRunning,           \* per step, the calls of its function that have
                          \* not settled yet
    seqApiCalls,          \* number of start/stop/reset/toggle calls
    seqLastOp,            \* what the last step of the instance was
    seqLastInvoked,       \* the step invoked last since the latest start()
                          \* that began a run, or NoStep
    seqStopped            \* stop() or reset() was called and start() was
                          \* not called since

sequentialVars ==
    << seqSteps, seqLoop, seqAutoStart, seqIsRunning, seqCurrentStepIndex,
       seqCyclesCompleted, seqTimeRemaining, seqTimeoutRef, seqSinceStart,
       seqCurrentTimeoutRef, seqIsRunningRef, seqMounted, seqTimers,
       seqRunning, seqApiCalls, seqLastOp, seqLastInvoked, seqStopped >>

VARIABLES
    reruns          \* number of execute() calls whose record took the place
                    \* of the record of a run that can no longer act

rerunVars == << reruns >>

vars ==
    << retryVars, batchVars, calcVars, throttleVars, timeoutVars,
       delayedVars, sequentialVars, rerunVars >>

\* The other hook instances, which no action of useRetry touches.
otherHooks ==
    << batchVars, calcVars, throttleVars, timeoutVars, delayedVars,
       sequentialVars >>

\* What the actions of one part of the model leave alone.
outsideRetry ==
    << batchVars, calcVars, throttleVars, timeoutVars, delayedVars,
       sequentialVars, rerunVars >>
outsideBatch ==
    << retryVars, calcVars, throttleVars, timeoutVars, delayedVars,
       sequentialVars, rerunVars >>
outsideCalc ==
    << retryVars, batchVars, throttleVars, timeoutVars, delayedVars,
       sequentialVars, rerunVars >>
outsideThrottle ==
    << retryVars, batchVars, calcVars, timeoutVars, delayedVars,
       sequentialVars, rerunVars >>
outsideTimeout ==
    << retryVars, batchVars, calcVars, throttleVars, delayedVars,
       sequentialVars, rerunVars >>
outsideDelayed ==
    << retryVars, batchVars, calcVars, throttleVars, timeoutVars,
       sequentialVars, rerunVars >>
outsideSequential ==
    << retryVars, batchVars, calcVars, throttleVars, timeoutVars,
       delayedVars, rerunVars >>

InitialRetryState ==
    [ isRetrying |-> FALSE, currentAttempt |-> 0, lastError |-> NoError,
      timeUntilNextRetry |-> 0, totalAttempts |-> 0 ]

\* A run is the promise chain of one execute() call, with what it has done:
\*   phase     idle (not called yet), attempting (operation in flight),
\*             waiting (backoff wait), done (promise settled)
\*   n         attemptNumber of the current attempt
\*   promise   none / pending / resolved / rejected
\*   outcome   the value or error the promise settled with
\*   calls     invocations of operation
\*   fails     rejections of operation, lastErr the latest of them
\*   srCalls   invocations of shouldRetry
\*   onRetry   arguments (attemptNumber, nextDelay) of the onRetry calls
\*   onMax     arguments of the onMaxAttemptsReached calls
\*   touched   cancel() or reset() was called during the run
\*   cwait     "fresh" once cancel() or reset() was called during a backoff
\*             wait of the run, "old" after the next execute(), else "no"
\*   cflight   cancel() or reset() was called during the attempt in flight
\*   overlap   execute() was called while another run was active
\*   waited    time spent in the current backoff wait, capped
IdleRun ==
    [ phase |-> "idle", n |-> 0, promise |-> "none", outcome |-> NoError,
      calls |-> 0, fails |-> 0, lastErr |-> NoError, srCalls |-> 0,
      onRetry |-> <<>>, onMax |-> <<>>,
      touched |-> FALSE, cwait |-> "no", cflight |-> FALSE,
      overlap |-> FALSE, waited |-> 0 ]

RunIds == 1..MaxRuns

\* A run whose promise chain can still act: an attempt of it is in flight,
\* or a retry-wait timer of it is outstanding.
Active(r) ==
    \/ runs[r].phase = "attempting"
    \/ \E i \in 1..Len(retryTimers) :
          retryTimers[i].kind = "retry" /\ retryTimers[i].run = r

RECURSIVE Pow(_, _)
Pow(b, e) == IF e <= 0 THEN 1 ELSE b * Pow(b, e - 1)

\* calculateDelay with the exponent attemptNumber in place of attemptNumber - 1.
calculateDelay_ExponentOff(o, attemptNumber) ==
    IF ~o.useExponentialBackoff
    THEN o.initialDelay
    ELSE Min(o.initialDelay * Pow(o.backoffMultiplier, attemptNumber),
             o.maxDelay)

\* calculateDelay(attemptNumber), for the 1-based number of the retry.
calculateDelay(o, attemptNumber) ==
    IF ~o.useExponentialBackoff
    THEN o.initialDelay
    ELSE Min(o.initialDelay * Pow(o.backoffMultiplier, attemptNumber - 1),
             o.maxDelay)

\* opts.shouldRetry(error, attemptNumber) for the three policies modelled.
ShouldRetry(o, error, attemptNumber) ==
    CASE o.shouldRetry = "always" -> TRUE
      [] o.shouldRetry = "never" -> FALSE
      [] o.shouldRetry = "firstOnly" -> attemptNumber < 1

\* hasAttemptsLeft taking attemptNumber for 1-based: one retry too few.
HasAttemptsLeft_FromOne(o, attemptNumber) == attemptNumber + 1 < o.maxAttempts

\* hasAttemptsLeft with <= in place of <: one retry too many.
HasAttemptsLeft_OffByOne(o, attemptNumber) == attemptNumber <= o.maxAttempts

\* const hasAttemptsLeft = attemptNumber < opts.maxAttempts
HasAttemptsLeft(o, attemptNumber) == attemptNumber < o.maxAttempts

RetryRefs == {timeoutRef, countdownRef} \ {NoTimer}

RetryInit ==
    /\ opts \in RetryOptionSets
    /\ state = InitialRetryState
    /\ timeoutRef = NoTimer
    /\ countdownRef = NoTimer
    /\ cancelledRef = FALSE
    /\ retryTimers = <<>>
    /\ runs = [ r \in RunIds |-> IdleRun ]
    /\ lastCall = "none"
    /\ reruns = 0

\* The start of an attempt that leaves totalAttempts as it was.
AttemptStarts_NoTotal(st, attemptNumber) ==
    [ st EXCEPT !.currentAttempt = attemptNumber ]

\* setState((prev) => ({ ...prev, currentAttempt: attemptNumber,
\*                       totalAttempts: attemptNumber + 1 }))
AttemptStarts(st, attemptNumber) ==
    [ st EXCEPT !.currentAttempt = attemptNumber,
                !.totalAttempts = attemptNumber + 1 ]

\* The update that leaves the state as it was.
Settled_Unchanged(st) == st

\* The same update without isRetrying: false.
Settled_StillRetrying(st) == [ st EXCEPT !.timeUntilNextRetry = 0 ]

\* setState((prev) => ({ ...prev, isRetrying: false, timeUntilNextRetry: 0 }))
Settled(st) == [ st EXCEPT !.isRetrying = FALSE, !.timeUntilNextRetry = 0 ]

\* execute(): clears the flag, resets the state and starts attempt 0.  The
\* model calls it while at most one earlier run is still active, so that up
\* to two runs overlap.
Execute ==
    /\ \E r \in RunIds :
          /\ runs[r].phase = "idle"
          /\ \A q \in 1..(r - 1) : runs[q].phase # "idle"
          /\ \A a, b \in RunIds :
                (Active(a) /\ Active(b)) => a = b
          /\ runs' = [ q \in RunIds |->
                        IF q = r
                        THEN [ IdleRun EXCEPT
                                 !.phase = "attempting",
                                 !.promise = "pending",
                                 !.calls = 1,
                                 !.overlap = \E a \in RunIds : Active(a) ]
                        ELSE [ runs[q] EXCEPT
                                 !.cwait = IF @ = "no" THEN "no" ELSE "old",
                                 !.overlap = @ \/ Active(q) ] ]
    /\ cancelledRef' = FALSE
    /\ state' = AttemptStarts([ isRetrying |-> TRUE, currentAttempt |-> 0,
                                lastError |-> NoError,
                                timeUntilNextRetry |-> 0,
                                totalAttempts |-> 0 ], 0)
    /\ lastCall' = "execute"
    /\ UNCHANGED << opts, timeoutRef, countdownRef, retryTimers >>
    /\ UNCHANGED outsideRetry

\* The operation of run r resolves: the try branch of attemptOperation.
OperationResolves(r) ==
    /\ runs[r].phase = "attempting"
    /\ state' = Settled(state)
    /\ runs' = [ runs EXCEPT ![r].phase = "done",
                             ![r].promise = "resolved",
                             ![r].outcome = Success,
                             ![r].cflight = FALSE ]
    /\ lastCall' = "none"
    /\ UNCHANGED << opts, timeoutRef, countdownRef, cancelledRef, retryTimers >>
    /\ UNCHANGED outsideRetry

\* The poller startCountdown(totalDelay) arms after publishing the full delay.
PollTimer(id, r, n, left) ==
    [ id |-> id, wait |-> RetryPoll, kind |-> "poll", run |-> r, n |-> n,
      left |-> left ]

\* The retry-wait timer armed with no delay.
RetryTimer_NoDelay(id, r, n, delay) ==
    [ id |-> id, wait |-> 0, kind |-> "retry", run |-> r, n |-> n,
      left |-> 0 ]

\* The retry-wait timer: setTimeout(() => attemptOperation(n), delay)
RetryTimer(id, r, n, delay) ==
    [ id |-> id, wait |-> delay, kind |-> "retry", run |-> r, n |-> n,
      left |-> 0 ]

\* The operation of run r rejects, with error e: the catch branch of
\* attemptOperation, up to the throw or the arming of the retry timer.
OperationRejects(r) ==
    LET n == runs[r].n
        e == Err(r, n)
        shouldRetry == ShouldRetry(opts, e, n)
        hasAttemptsLeft == HasAttemptsLeft(opts, n)
        failed == [ runs[r] EXCEPT !.fails = @ + 1, !.lastErr = e,
                                   !.srCalls = @ + 1, !.cflight = FALSE,
                                   !.waited = 0 ]
        delay == calculateDelay(opts, n + 1)
        pollId == FreshId(retryTimers, RetryRefs)
        polling == delay > 0 /\ ~cancelledRef
        q1 == IF polling
              THEN SetTimeout(retryTimers, PollTimer(pollId, r, n + 1, delay))
              ELSE retryTimers
        cref == IF polling THEN pollId ELSE countdownRef
        retryId == FreshId(q1, ({timeoutRef, cref} \ {NoTimer}))
    IN  /\ runs[r].phase = "attempting"
        /\ IF ~shouldRetry \/ ~hasAttemptsLeft \/ cancelledRef
           THEN /\ state' = Settled([ state EXCEPT !.lastError = e ])
                /\ runs' = [ runs EXCEPT ![r] =
                      [ failed EXCEPT
                          !.phase = "done",
                          !.promise = "rejected",
                          !.outcome = e,
                          !.onMax = IF hasAttemptsLeft = FALSE
                                    THEN Append(@, << e, n + 1 >>)
                                    ELSE @ ] ]
                /\ UNCHANGED << timeoutRef, countdownRef, retryTimers >>
           ELSE /\ state' = [ state EXCEPT !.lastError = e,
                                           !.timeUntilNextRetry = delay ]
                /\ runs' = [ runs EXCEPT ![r] =
                      [ failed EXCEPT
                          !.phase = "waiting",
                          !.onRetry = Append(@, << n + 1, delay >>) ] ]
                /\ countdownRef' = cref
                /\ timeoutRef' = retryId
                /\ retryTimers' =
                      SetTimeout(q1, RetryTimer(retryId, r, n + 1, delay))
        /\ lastCall' = "none"
        /\ UNCHANGED << opts, cancelledRef >>
        /\ UNCHANGED outsideRetry

\* The retry-wait timer of run r fires: attemptOperation(attemptNumber + 1).
FireRetry(t) ==
    LET r == t.run
    IN  /\ retryTimers' = Tail(retryTimers)
        /\ IF cancelledRef
           THEN /\ runs' = [ runs EXCEPT ![r].phase = "done",
                                         ![r].promise = "rejected",
                                         ![r].outcome = CancelError ]
                /\ UNCHANGED state
           ELSE /\ runs' = [ runs EXCEPT ![r].phase = "attempting",
                                         ![r].n = t.n,
                                         ![r].calls = @ + 1 ]
                /\ state' = AttemptStarts(state, t.n)
        /\ UNCHANGED << opts, timeoutRef, countdownRef, cancelledRef >>

\* A countdown poll fires: updateCountdown of startCountdown.
FirePoll(t) ==
    LET remaining == t.left
        rest == Tail(retryTimers)
        id == FreshId(rest, RetryRefs)
    IN  /\ state' = [ state EXCEPT !.timeUntilNextRetry = remaining ]
        /\ IF remaining > 0 /\ ~cancelledRef
           THEN /\ retryTimers' = SetTimeout(rest, PollTimer(id, t.run, t.n, remaining))
                /\ countdownRef' = id
           ELSE /\ retryTimers' = rest
                /\ UNCHANGED countdownRef
        /\ UNCHANGED << opts, timeoutRef, cancelledRef, runs >>

RetryTimerFires ==
    /\ TimerDue(retryTimers)
    /\ retryTimers[1].kind = "retry"
    /\ FireRetry(retryTimers[1])
    /\ lastCall' = "none"
    /\ UNCHANGED outsideRetry

PollTimerFires ==
    /\ TimerDue(retryTimers)
    /\ retryTimers[1].kind = "poll"
    /\ FirePoll(retryTimers[1])
    /\ lastCall' = "none"
    /\ UNCHANGED outsideRetry

RetryTick ==
    /\ CanElapse(retryTimers)
    /\ retryTimers' = Elapse(retryTimers)
    /\ runs' = [ r \in RunIds |->
                  IF runs[r].phase = "waiting"
                  THEN [ runs[r] EXCEPT
                           !.waited = Min(@ + 1, Max(opts.initialDelay,
                                                     opts.maxDelay)) ]
                  ELSE runs[r] ]
    /\ lastCall' = "none"
    /\ UNCHANGED << opts, state, timeoutRef, countdownRef, cancelledRef >>
    /\ UNCHANGED outsideRetry

\* What cancel() does to the refs, the timers and the runs' records.
CancelEffects ==
    /\ cancelledRef' = TRUE
    /\ retryTimers' =
          ClearTimeout(ClearTimeout(retryTimers, timeoutRef), countdownRef)
    /\ timeoutRef' = NoTimer
    /\ countdownRef' = NoTimer
    /\ runs' = [ r \in RunIds |->
                  CASE runs[r].phase = "waiting" ->
                         [ runs[r] EXCEPT !.touched = TRUE, !.cwait = "fresh" ]
                    [] runs[r].phase = "attempting" ->
                         [ runs[r] EXCEPT !.touched = TRUE, !.cflight = TRUE ]
                    [] OTHER -> runs[r] ]
    /\ UNCHANGED opts

Cancel ==
    /\ CancelEffects
    /\ state' = Settled(state)
    /\ lastCall' = "cancel"
    /\ UNCHANGED outsideRetry

Reset ==
    /\ CancelEffects
    /\ state' = InitialRetryState
    /\ lastCall' = "reset"
    /\ UNCHANGED outsideRetry

\* Bound on the execute() calls beyond MaxRuns.
MaxReruns == 1

\* Options under which a backoff wait lasts two polling periods, so that the
\* countdown poller re-arms itself during a wait.
LongWaitOptions ==
    [ maxAttempts |-> 1, initialDelay |-> 2 * RetryPoll,
      backoffMultiplier |-> 2, maxDelay |-> 2 * RetryPoll,
      useExponentialBackoff |-> TRUE, shouldRetry |-> "always" ]

RetryInitLongWait ==
    /\ opts = LongWaitOptions
    /\ state = InitialRetryState
    /\ timeoutRef = NoTimer
    /\ countdownRef = NoTimer
    /\ cancelledRef = FALSE
    /\ retryTimers = <<>>
    /\ runs = [ r \in RunIds |-> IdleRun ]
    /\ lastCall = "none"
    /\ reruns = 0

\* execute() called once more when every run record is in use: the new run
\* is recorded in the place of a run that can no longer act (its promise has
\* settled, or its retry-wait timer was cleared by cancel() or reset()).
ExecuteAgain ==
    /\ reruns < MaxReruns
    /\ reruns' = reruns + 1
    /\ \E r \in RunIds :
          /\ \A q \in RunIds : runs[q].phase # "idle"
          /\ ~Active(r)
          /\ \A a, b \in RunIds :
                (Active(a) /\ Active(b)) => a = b
          /\ runs' = [ q \in RunIds |->
                        IF q = r
                        THEN [ IdleRun EXCEPT
                                 !.phase = "attempting",
                                 !.promise = "pending",
                                 !.calls = 1,
                                 !.overlap = \E a \in RunIds : Active(a) ]
                        ELSE [ runs[q] EXCEPT
                                 !.cwait = IF @ = "no" THEN "no" ELSE "old",
                                 !.overlap = @ \/ Active(q) ] ]
    /\ cancelledRef' = FALSE
    /\ state' = AttemptStarts([ isRetrying |-> TRUE, currentAttempt |-> 0,
                                lastError |-> NoError,
                                timeUntilNextRetry |-> 0,
                                totalAttempts |-> 0 ], 0)
    /\ lastCall' = "execute"
    /\ UNCHANGED << opts, timeoutRef, countdownRef, retryTimers >>
    /\ UNCHANGED otherHooks

(***************************************************************************)
(* The delay of a retry on its own: the scheduling part of the catch       *)
(* branch of attemptOperation, for backoff options drawn from wider ranges *)
(* than the run model above uses.                                          *)
(***************************************************************************)

\* Bounds of the delay model.
MaxDelayOption == 3     \* largest initialDelay and maxDelay, in time units
MaxMultiplier == 3      \* largest backoffMultiplier
MaxRetryNumber == 3     \* largest retry number

BackoffOptionSets ==
    [ initialDelay : 0..MaxDelayOption,
      backoffMultiplier : 1..MaxMultiplier,
      maxDelay : 0..MaxDelayOption,
      useExponentialBackoff : BOOLEAN ]

CalcInit ==
    /\ calcOpts \in BackoffOptionSets
    /\ calcRetry = 0
    /\ calcDelay = 0

\* Attempt attemptNumber failed and is retried:
\*   const delay = calculateDelay(attemptNumber + 1);
\*   opts.onRetry(error, attemptNumber + 1, delay);
\*   ... setTimeout(..., delay)
ScheduleRetry ==
    /\ \E attemptNumber \in 0..(MaxRetryNumber - 1) :
          /\ calcRetry' = attemptNumber + 1
          /\ calcDelay' = calculateDelay(calcOpts, attemptNumber + 1)
    /\ UNCHANGED calcOpts
    /\ UNCHANGED outsideCalc

(***************************************************************************)
(*                           useBatchedUpdates                             *)
(***************************************************************************)

\* Bounds of the useBatchedUpdates model.
MaxUpdates == 4         \* addUpdate calls per behaviour
MaxBatchSize == 3       \* largest maxBatchSize option
MaxRerenders == 1       \* re-renders with changed options per behaviour

\* The countdown polling period in time units, and the longest batch window
\* modelled.
BatchPoll == BatchPollMs \div BatchPollMs
MaxBatchWindow == 2 * BatchPoll

\* The updates are 1, 2, 3, ... in the order of the addUpdate calls; two
\* updates carry equal content when their keys are equal.
Updates == 1..MaxUpdates
Key(u) == u % 2

Reducers == {"append", "dedupe", "filter"}

BatchOptionSets ==
    [ batchWindow : 0..MaxBatchWindow,
      maxBatchSize : 1..MaxBatchSize,
      flushOnFirst : BOOLEAN,
      reducer : Reducers ]

\* opts.reducer(accumulated, newUpdate): the default reducer appends; the
\* other two are custom reducers, one dropping an update whose content is
\* already in the batch, one dropping the updates of key 1.
Reduce(o, accumulated, newUpdate) ==
    CASE o.reducer = "append" -> Append(accumulated, newUpdate)
      [] o.reducer = "dedupe" ->
           IF \E i \in 1..Len(accumulated) : Key(accumulated[i]) = Key(newUpdate)
           THEN accumulated
           ELSE Append(accumulated, newUpdate)
      [] o.reducer = "filter" ->
           IF Key(newUpdate) = 1
           THEN accumulated
           ELSE Append(accumulated, newUpdate)

\* shouldFlushOnSize with > in place of >=: the flush comes one update late.
ShouldFlushOnSize_Strict(o, newUpdates) == Len(newUpdates) > o.maxBatchSize

\* const shouldFlushOnSize = newUpdates.length >= opts.maxBatchSize
ShouldFlushOnSize(o, newUpdates) == Len(newUpdates) >= o.maxBatchSize

BatchRefs == {batchTimeoutRef, batchCountdownRef} \ {NoTimer}

\* The auto-flush timer armed one polling period late.
FlushTimer_Late(id, window) ==
    [ id |-> id, wait |-> window + BatchPoll, kind |-> "flush",
      items |-> <<>>, window |-> window, left |-> 0 ]

\* The auto-flush timer: setTimeout(() => flush(), opts.batchWindow)
FlushTimer(id, window) ==
    [ id |-> id, wait |-> window, kind |-> "flush", items |-> <<>>,
      window |-> window, left |-> 0 ]

CountdownTimer(id, window) ==
    [ id |-> id, wait |-> BatchPoll, kind |-> "poll", items |-> <<>>,
      window |-> window, left |-> 0 ]

\* The deferred delivery with a delay of one polling period in place of 0.
DeliverTimer_Delayed(id, items) ==
    [ id |-> id, wait |-> BatchPoll, kind |-> "deliver", items |-> items,
      window |-> 0, left |-> 0 ]

\* The setTimeout(..., 0) of a first-update or size-triggered flush.
DeliverTimer(id, items) ==
    [ id |-> id, wait |-> 0, kind |-> "deliver", items |-> items,
      window |-> 0, left |-> 0 ]

\* The two callbacks in the opposite order.
Delivery_ConsumerFirst(items) ==
    << [ fn |-> "consumer", items |-> items, size |-> Len(items) ],
       [ fn |-> "onFlush", items |-> items, size |-> Len(items) ] >>

\* opts.onFlush(items, items.length) and then the consumer callback.
Delivery_OnFlushOnly(items) ==
    << [ fn |-> "onFlush", items |-> items, size |-> Len(items) ] >>

Delivery(items) ==
    << [ fn |-> "onFlush", items |-> items, size |-> Len(items) ],
       [ fn |-> "consumer", items |-> items, size |-> Len(items) ] >>

Range(seq) == { seq[i] : i \in 1..Len(seq) }

\* The consumer's tally after the invocations in cs.
Tally(cnt, cs) ==
    [ u \in Updates |->
        cnt[u] + Cardinality({ i \in 1..Len(cs) :
                                 cs[i].fn = "consumer" /\ u \in Range(cs[i].items) }) ]

\* The effect that copies hasPendingUpdates into hasPendingUpdatesRef runs
\* when hasPendingUpdates changed between two renders.
SyncHasPending(ref, before, after) ==
    IF (Len(before) > 0) # (Len(after) > 0) THEN Len(after) > 0 ELSE ref

\* clearTimers() that clears nothing.
clearTimers_Nothing(q) == q

\* clearTimers() that forgets the auto-flush timer.
clearTimers_CountdownOnly(q) == ClearTimeout(q, batchCountdownRef)

\* clearTimers() that forgets the countdown poller.
clearTimers_TimeoutOnly(q) == ClearTimeout(q, batchTimeoutRef)

\* clearTimers()
clearTimers(q) == ClearTimeout(ClearTimeout(q, batchTimeoutRef), batchCountdownRef)

Op(name) == [ op |-> name, u |-> 0, trigger |-> "none", prev |-> <<>> ]

BatchInit ==
    /\ batchOpts \in BatchOptionSets
    /\ pendingUpdates = <<>>
    /\ timeUntilFlush = 0
    /\ batchTimeoutRef = NoTimer
    /\ batchCountdownRef = NoTimer
    /\ startElapsed = MaxBatchWindow
    /\ isFirstUpdateRef = TRUE
    /\ hasPendingUpdatesRef = FALSE
    /\ mounted = TRUE
    /\ batchTimers = <<>>
    /\ added = 0
    /\ rerenders = 0
    /\ count = [ u \in Updates |-> 0 ]
    /\ calls = <<>>
    /\ lastOp = Op("mount")
    /\ windowAdds = <<>>
    /\ sinceFirst = 0

\* addUpdate(update)
AddUpdate ==
    LET update == added + 1
        prev == pendingUpdates
        newUpdates == Reduce(batchOpts, prev, update)
        shouldFlushOnFirst == batchOpts.flushOnFirst /\ isFirstUpdateRef
        shouldFlushOnSize == ShouldFlushOnSize(batchOpts, newUpdates)
        window == batchOpts.batchWindow
        \* scheduleFlush(): clearTimers(), startCountdown(), setTimeout(flush)
        cleared == clearTimers(batchTimers)
        pollId == FreshId(cleared, {})
        polling == window > 0
        q1 == IF polling
              THEN SetTimeout(cleared, CountdownTimer(pollId, window))
              ELSE cleared
        flushId == FreshId(q1, IF polling THEN {pollId} ELSE {})
        op == [ op |-> "addUpdate", u |-> update, trigger |-> "none",
                prev |-> prev ]
    IN  /\ mounted
        /\ added < MaxUpdates
        /\ added' = update
        /\ calls' = <<>>
        /\ windowAdds' = IF prev = <<>> THEN << update >>
                         ELSE Append(windowAdds, update)
        /\ IF shouldFlushOnFirst
           THEN /\ batchTimers' =
                      SetTimeout(batchTimers,
                          DeliverTimer(FreshId(batchTimers, BatchRefs), << update >>))
                /\ isFirstUpdateRef' = FALSE
                /\ pendingUpdates' = <<>>
                /\ hasPendingUpdatesRef' =
                      SyncHasPending(hasPendingUpdatesRef, prev, <<>>)
                /\ lastOp' = [ op EXCEPT !.trigger = "first" ]
                /\ UNCHANGED << timeUntilFlush, batchTimeoutRef,
                                batchCountdownRef, startElapsed, sinceFirst >>
           ELSE IF shouldFlushOnSize
           THEN /\ batchTimers' =
                      SetTimeout(batchTimers,
                          DeliverTimer(FreshId(batchTimers, BatchRefs), newUpdates))
                /\ isFirstUpdateRef' = TRUE
                /\ pendingUpdates' = <<>>
                /\ hasPendingUpdatesRef' =
                      SyncHasPending(hasPendingUpdatesRef, prev, <<>>)
                /\ lastOp' = [ op EXCEPT !.trigger = "size" ]
                /\ UNCHANGED << timeUntilFlush, batchTimeoutRef,
                                batchCountdownRef, startElapsed, sinceFirst >>
           ELSE /\ IF Len(prev) = 0
                   THEN /\ batchTimers' =
                              SetTimeout(q1, FlushTimer(flushId, window))
                        /\ batchTimeoutRef' = flushId
                        /\ batchCountdownRef' =
                              IF polling THEN pollId ELSE NoTimer
                        /\ startElapsed' = 0
                        /\ timeUntilFlush' = window
                        /\ hasPendingUpdatesRef' =
                              SyncHasPending(TRUE, prev, newUpdates)
                        /\ lastOp' = [ op EXCEPT !.trigger = "armed" ]
                        /\ sinceFirst' = 0
                   ELSE /\ hasPendingUpdatesRef' =
                              SyncHasPending(hasPendingUpdatesRef, prev, newUpdates)
                        /\ lastOp' = op
                        /\ UNCHANGED << batchTimers, batchTimeoutRef,
                                        batchCountdownRef, startElapsed,
                                        timeUntilFlush, sinceFirst >>
                /\ isFirstUpdateRef' = FALSE
                /\ pendingUpdates' = newUpdates
        /\ UNCHANGED << batchOpts, mounted, rerenders, count >>
        /\ UNCHANGED outsideBatch

\* The updater of flush() without isFirstUpdateRef.current = true.
FlushPending_KeepsFlag(q, by) ==
    IF pendingUpdates = <<>>
    THEN /\ batchTimers' = q
         /\ calls' = <<>>
         /\ lastOp' = Op(by)
         /\ UNCHANGED << pendingUpdates, timeUntilFlush, batchTimeoutRef,
                         batchCountdownRef, isFirstUpdateRef,
                         hasPendingUpdatesRef, count >>
    ELSE /\ batchTimers' = clearTimers(q)
         /\ batchTimeoutRef' = NoTimer
         /\ batchCountdownRef' = NoTimer
         /\ timeUntilFlush' = 0
         /\ calls' = Delivery(pendingUpdates)
         /\ count' = Tally(count, Delivery(pendingUpdates))
         /\ UNCHANGED isFirstUpdateRef
         /\ hasPendingUpdatesRef' = FALSE
         /\ pendingUpdates' = <<>>
         /\ lastOp' = [ Op(by) EXCEPT !.trigger = "flushed",
                                      !.prev = pendingUpdates ]

\* The updater of flush() without the test for an empty batch.
FlushPending_NoEmptyCheck(q, by) ==
    /\ batchTimers' = clearTimers(q)
    /\ batchTimeoutRef' = NoTimer
    /\ batchCountdownRef' = NoTimer
    /\ timeUntilFlush' = 0
    /\ calls' = Delivery(pendingUpdates)
    /\ count' = Tally(count, Delivery(pendingUpdates))
    /\ isFirstUpdateRef' = TRUE
    /\ hasPendingUpdatesRef' = FALSE
    /\ pendingUpdates' = <<>>
    /\ lastOp' = [ Op(by) EXCEPT !.trigger = "flushed",
                                 !.prev = pendingUpdates ]

\* The updater of flush(), run on the timer queue q; by names the caller.
FlushPending(q, by) ==
    IF pendingUpdates = <<>>
    THEN /\ batchTimers' = q
         /\ calls' = <<>>
         /\ lastOp' = Op(by)
         /\ UNCHANGED << pendingUpdates, timeUntilFlush, batchTimeoutRef,
                         batchCountdownRef, isFirstUpdateRef,
                         hasPendingUpdatesRef, count >>
    ELSE /\ batchTimers' = clearTimers(q)
         /\ batchTimeoutRef' = NoTimer
         /\ batchCountdownRef' = NoTimer
         /\ timeUntilFlush' = 0
         /\ calls' = Delivery(pendingUpdates)
         /\ count' = Tally(count, Delivery(pendingUpdates))
         /\ isFirstUpdateRef' = TRUE
         /\ hasPendingUpdatesRef' = FALSE
         /\ pendingUpdates' = <<>>
         /\ lastOp' = [ Op(by) EXCEPT !.trigger = "flushed",
                                      !.prev = pendingUpdates ]

\* flush(), called by the user
Flush ==
    /\ mounted
    /\ FlushPending(batchTimers, "flush")
    /\ UNCHANGED << batchOpts, startElapsed, mounted, added, rerenders,
                    windowAdds, sinceFirst >>
    /\ UNCHANGED outsideBatch

\* The auto-flush timer fires: the callback scheduleFlush() armed.
FlushTimerFires ==
    /\ TimerDue(batchTimers)
    /\ batchTimers[1].kind = "flush"
    /\ FlushPending(Tail(batchTimers), "flushTimer")
    /\ UNCHANGED << batchOpts, startElapsed, mounted, added, rerenders,
                    windowAdds, sinceFirst >>
    /\ UNCHANGED outsideBatch

\* A countdown poll fires: updateCountdown()
CountdownFires ==
    LET t == batchTimers[1]
        rest == Tail(batchTimers)
        remaining == Max(0, t.window - startElapsed)
        id == FreshId(rest, BatchRefs)
    IN  /\ TimerDue(batchTimers)
        /\ t.kind = "poll"
        /\ IF ~hasPendingUpdatesRef
           THEN /\ batchTimers' = rest
                /\ UNCHANGED << timeUntilFlush, batchCountdownRef >>
           ELSE /\ timeUntilFlush' = remaining
                /\ IF remaining > 0
                   THEN /\ batchTimers' =
                              SetTimeout(rest, CountdownTimer(id, t.window))
                        /\ batchCountdownRef' = id
                   ELSE /\ batchTimers' = rest
                        /\ UNCHANGED batchCountdownRef
        /\ calls' = <<>>
        /\ lastOp' = Op("countdown")
        /\ UNCHANGED << batchOpts, pendingUpdates, batchTimeoutRef,
                        startElapsed, isFirstUpdateRef, hasPendingUpdatesRef,
                        mounted, added, rerenders, count, windowAdds,
                        sinceFirst >>
        /\ UNCHANGED outsideBatch

\* The deferred delivery of a first-update or size-triggered flush fires.
DeliverFires ==
    LET t == batchTimers[1]
    IN  /\ TimerDue(batchTimers)
        /\ t.kind = "deliver"
        /\ batchTimers' = Tail(batchTimers)
        /\ calls' = Delivery(t.items)
        /\ count' = Tally(count, Delivery(t.items))
        /\ lastOp' = [ Op("deliver") EXCEPT !.prev = t.items ]
        /\ UNCHANGED << batchOpts, pendingUpdates, timeUntilFlush,
                        batchTimeoutRef, batchCountdownRef, startElapsed,
                        isFirstUpdateRef, hasPendingUpdatesRef, mounted,
                        added, rerenders, windowAdds, sinceFirst >>
        /\ UNCHANGED outsideBatch

\* clear()
Clear ==
    /\ mounted
    /\ batchTimers' = clearTimers(batchTimers)
    /\ batchTimeoutRef' = NoTimer
    /\ batchCountdownRef' = NoTimer
    /\ pendingUpdates' = <<>>
    /\ timeUntilFlush' = 0
    /\ isFirstUpdateRef' = TRUE
    /\ hasPendingUpdatesRef' = FALSE
    /\ calls' = <<>>
    /\ lastOp' = [ Op("clear") EXCEPT !.prev = pendingUpdates ]
    /\ UNCHANGED << batchOpts, startElapsed, mounted, added, rerenders, count,
                    windowAdds, sinceFirst >>
    /\ UNCHANGED outsideBatch

\* The cleanup of the effect that depends on opts: it runs when a render
\* finds opts changed, and at unmount.
OptsEffectCleanup ==
    IF pendingUpdates # <<>>
    THEN /\ calls' = Delivery(pendingUpdates)
         /\ count' = Tally(count, Delivery(pendingUpdates))
         /\ hasPendingUpdatesRef' = FALSE
    ELSE /\ calls' = <<>>
         /\ UNCHANGED << count, hasPendingUpdatesRef >>

\* The component re-renders with an options object in which reducer or
\* onFlush is a new function of the same behaviour (an inline function), so
\* that useMemo yields a new opts with the same values.
Rerender ==
    /\ mounted
    /\ rerenders < MaxRerenders
    /\ batchOpts' = batchOpts
    /\ rerenders' = rerenders + 1
    /\ OptsEffectCleanup
    /\ lastOp' = [ Op("rerender") EXCEPT !.prev = pendingUpdates ]
    /\ UNCHANGED << pendingUpdates, timeUntilFlush, batchTimeoutRef,
                    batchCountdownRef, startElapsed, isFirstUpdateRef, mounted,
                    batchTimers, added, windowAdds, sinceFirst >>
    /\ UNCHANGED outsideBatch

\* The component unmounts: the cleanups of the two unmount effects.
Unmount ==
    /\ mounted
    /\ mounted' = FALSE
    /\ batchTimers' = clearTimers(batchTimers)
    /\ batchTimeoutRef' = NoTimer
    /\ batchCountdownRef' = NoTimer
    /\ OptsEffectCleanup
    /\ lastOp' = [ Op("unmount") EXCEPT !.prev = pendingUpdates ]
    /\ UNCHANGED << batchOpts, pendingUpdates, timeUntilFlush, startElapsed,
                    isFirstUpdateRef, added, rerenders, windowAdds,
                    sinceFirst >>
    /\ UNCHANGED outsideBatch

BatchTick ==
    /\ CanElapse(batchTimers)
    /\ batchTimers' = Elapse(batchTimers)
    /\ startElapsed' = Min(startElapsed + 1, MaxBatchWindow)
    /\ sinceFirst' = Min(sinceFirst + 1, MaxBatchWindow + 1)
    /\ calls' = <<>>
    /\ lastOp' = Op("tick")
    /\ UNCHANGED << batchOpts, pendingUpdates, timeUntilFlush, batchTimeoutRef,
                    batchCountdownRef, isFirstUpdateRef, hasPendingUpdatesRef,
                    mounted, added, rerenders, count, windowAdds >>
    /\ UNCHANGED outsideBatch

(***************************************************************************)
(*                              useThrottle                                *)
(*                                                                         *)
(* Time is counted in units of an arbitrary granule; the delay is a whole  *)
(* number of units.  Time passes whether or not a timer is outstanding.    *)
(***************************************************************************)

\* Bounds of the useThrottle model.
MaxThrottleDelay == 3   \* largest delay, in time units
MaxThrottleCalls == 3   \* calls of the throttled function per behaviour

\* No invocation before: the gap recorded for the first invocation.
NoGap == 0 - 1

NoInvocation == [ arg |-> 0, via |-> "none", gap |-> NoGap ]

\* callback(...args) made by via ("call" or "timer"), with lastRun updated.
Invoke(arg, via) ==
    /\ thrLast' = [ arg |-> arg, via |-> via,
                    gap |-> IF thrInvocations = 0 THEN NoGap
                            ELSE thrSinceInvoke ]
    /\ thrInvocations' = thrInvocations + 1
    /\ thrSinceRun' = 0
    /\ thrSinceInvoke' = 0

\* The trailing timer: setTimeout(..., delay - (now - lastRun.current))
TrailingTimer(id, arg, wait) ==
    [ id |-> id, wait |-> wait, kind |-> "trailing", arg |-> arg, left |-> 0 ]

ThrottleInit ==
    /\ thrDelay \in 1..MaxThrottleDelay
    /\ thrSinceRun = MaxThrottleDelay
    /\ thrTimeoutRef = NoTimer
    /\ thrTimers = <<>>
    /\ thrMounted = TRUE
    /\ thrCalled = 0
    /\ thrInvocations = 0
    /\ thrLast = NoInvocation
    /\ thrSinceInvoke = 0

\* A call of the throttled function, with the call's number as argument.
ThrottledCall ==
    LET arg == thrCalled + 1
        cleared == ClearTimeout(thrTimers, thrTimeoutRef)
        id == FreshId(cleared, {})
    IN  /\ thrMounted
        /\ thrCalled < MaxThrottleCalls
        /\ thrCalled' = arg
        /\ IF thrSinceRun >= thrDelay
           THEN /\ Invoke(arg, "call")
                /\ UNCHANGED << thrTimeoutRef, thrTimers >>
           ELSE /\ thrTimers' =
                      SetTimeout(cleared,
                          TrailingTimer(id, arg, thrDelay - thrSinceRun))
                /\ thrTimeoutRef' = id
                /\ UNCHANGED << thrSinceRun, thrInvocations, thrLast,
                                thrSinceInvoke >>
        /\ UNCHANGED << thrDelay, thrMounted >>
        /\ UNCHANGED outsideThrottle

\* The trailing timer fires.
TrailingFires ==
    /\ TimerDue(thrTimers)
    /\ thrTimers' = Tail(thrTimers)
    /\ Invoke(thrTimers[1].arg, "timer")
    /\ UNCHANGED << thrDelay, thrTimeoutRef, thrMounted, thrCalled >>
    /\ UNCHANGED outsideThrottle

\* The component unmounts: the cleanup of the effect.
ThrottleUnmount ==
    /\ thrMounted
    /\ thrMounted' = FALSE
    /\ thrTimers' = ClearTimeout(thrTimers, thrTimeoutRef)
    /\ UNCHANGED << thrDelay, thrSinceRun, thrTimeoutRef, thrCalled,
                    thrInvocations, thrLast, thrSinceInvoke >>
    /\ UNCHANGED outsideThrottle

ThrottleTick ==
    /\ ~TimerDue(thrTimers)
    /\ thrMounted
    /\ thrCalled < MaxThrottleCalls \/ thrTimers # <<>>
    /\ thrTimers' = Elapse(thrTimers)
    /\ thrSinceRun' = Min(thrSinceRun + 1, MaxThrottleDelay)
    /\ thrSinceInvoke' = Min(thrSinceInvoke + 1, MaxThrottleDelay)
    /\ UNCHANGED << thrDelay, thrTimeoutRef, thrMounted, thrCalled,
                    thrInvocations, thrLast >>
    /\ UNCHANGED outsideThrottle

(***************************************************************************)
(*                               useTimeout                                *)
(*                                                                         *)
(* Time is counted in units of the period of the interval that publishes   *)
(* timeRemaining.  A handler is one action together with the commits it    *)
(* causes: the effect that owns the interval runs when isRunning changed,  *)
(* and the auto-start effect runs when start changed, that is, when        *)
(* timeRemaining changed (start is memoised on timeRemaining and delay).   *)
(***************************************************************************)

\* Bounds of the useTimeout model.
MaxTimeoutDelay == 2    \* largest delay, in time units
MaxTimeoutCalls == 3    \* start/pause/reset/toggle calls per behaviour

\* The interval period in time units.
TimeoutPoll == TimeoutPollMs \div TimeoutPollMs

\* setTimeout(() => { savedCallback.current(); ... }, remainingTimeRef.current)
TimeoutTimer(id, wait) ==
    [ id |-> id, wait |-> wait, kind |-> "timeout", left |-> 0 ]

\* setInterval(..., 100), as the timer of its next tick
IntervalTimer(id) ==
    [ id |-> id, wait |-> TimeoutPoll, kind |-> "interval", left |-> 0 ]

\* clearInterval(intervalId)
ClearInterval(q) == SelectSeq(q, LAMBDA t : t.kind # "interval")

\* The commits after a handler that left the timer queue q, the handle ref,
\* startTimeRef (as since) and remainingTimeRef (as remRef) and changed
\* isRunning from run0 to run1 and timeRemaining from rem0 to rem1.  First
\* commit: the cleanups (clearInterval when the interval was running,
\* clearTimeout(timeoutRef.current) of the auto-start effect), then the
\* effects (setInterval when isRunning is true, start() when autoStart).
\* start() called there sets isRunning to true, and when that is a change a
\* second commit starts the interval.
TimeoutCommit(q, ref, run0, rem0, run1, rem1, since, remRef) ==
    LET startChanged == rem1 # rem0
        restart == startChanged /\ tmoAutoStart
        qa == IF run0 /\ ~run1 THEN ClearInterval(q) ELSE q
        qb == IF startChanged THEN ClearTimeout(qa, ref) ELSE qa
        i1 == FreshId(qb, {ref} \ {NoTimer})
        qc == IF run1 /\ ~run0 THEN SetTimeout(qb, IntervalTimer(i1)) ELSE qb
        i2 == FreshId(qc, {})
        qd == IF restart THEN SetTimeout(qc, TimeoutTimer(i2, rem1)) ELSE qc
        ref1 == IF restart THEN i2 ELSE ref
        i3 == FreshId(qd, {ref1} \ {NoTimer})
        qe == IF restart /\ ~run1 THEN SetTimeout(qd, IntervalTimer(i3)) ELSE qd
    IN  [ q |-> qe, ref |-> ref1, run |-> run1 \/ restart,
          since |-> IF restart THEN 0 ELSE since,
          remRef |-> IF restart THEN rem1 ELSE remRef ]

\* The refs, the timers and the published state after a handler and its
\* commits; elapsed is the value the handler passed to setTimeElapsed.
TimeoutPublish(c, rem1, elapsed) ==
    /\ tmoTimers' = c.q
    /\ tmoTimeoutRef' = c.ref
    /\ tmoIsRunning' = c.run
    /\ tmoSinceStart' = c.since
    /\ tmoRemainingRef' = c.remRef
    /\ tmoTimeRemaining' = rem1
    /\ tmoTimeElapsed' = elapsed

\* Mount: isRunning starts as autoStart; with autoStart the first effect
\* starts the interval and the auto-start effect calls start().
TimeoutInit ==
    /\ tmoDelay \in 1..MaxTimeoutDelay
    /\ tmoAutoStart \in BOOLEAN
    /\ tmoIsRunning = tmoAutoStart
    /\ tmoTimeRemaining = tmoDelay
    /\ tmoTimeElapsed = 0
    /\ tmoRemainingRef = tmoDelay
    /\ tmoMounted = TRUE
    /\ IF tmoAutoStart
       THEN /\ tmoTimers = SetTimeout(<< IntervalTimer(1) >>,
                                      TimeoutTimer(2, tmoDelay))
            /\ tmoTimeoutRef = 2
            /\ tmoSinceStart = 0
       ELSE /\ tmoTimers = <<>>
            /\ tmoTimeoutRef = NoTimer
            /\ tmoSinceStart = MaxTimeoutDelay
    /\ tmoApiCalls = 0
    /\ tmoInvoked = 0
    /\ tmoCounting = tmoAutoStart
    /\ tmoRan = 0
    /\ tmoWasReset = FALSE

\* start()
StartEffects ==
    LET cleared == ClearTimeout(tmoTimers, tmoTimeoutRef)
        id == FreshId(cleared, {})
        q1 == SetTimeout(cleared, TimeoutTimer(id, tmoTimeRemaining))
        c == TimeoutCommit(q1, id, tmoIsRunning, tmoTimeRemaining,
                           TRUE, tmoTimeRemaining, 0, tmoTimeRemaining)
    IN  /\ TimeoutPublish(c, tmoTimeRemaining, tmoTimeElapsed)
        /\ tmoCounting' = TRUE
        /\ UNCHANGED << tmoInvoked, tmoRan, tmoWasReset >>

\* pause()
PauseEffects ==
    LET cleared == ClearTimeout(tmoTimers, tmoTimeoutRef)
        remaining == Max(0, tmoRemainingRef - tmoSinceStart)
        c == TimeoutCommit(cleared, NoTimer, tmoIsRunning, tmoTimeRemaining,
                           FALSE, remaining, tmoSinceStart, remaining)
    IN  /\ TimeoutPublish(c, remaining, tmoDelay - remaining)
        /\ tmoCounting' = FALSE
        /\ UNCHANGED << tmoInvoked, tmoRan, tmoWasReset >>

TimeoutApiCall ==
    /\ tmoMounted
    /\ tmoApiCalls < MaxTimeoutCalls
    /\ tmoApiCalls' = tmoApiCalls + 1
    /\ UNCHANGED << tmoDelay, tmoAutoStart, tmoMounted >>
    /\ UNCHANGED outsideTimeout

TimeoutStart == TimeoutApiCall /\ StartEffects

TimeoutPause == TimeoutApiCall /\ PauseEffects

\* toggle()
TimeoutToggle ==
    /\ TimeoutApiCall
    /\ IF tmoIsRunning THEN PauseEffects ELSE StartEffects

\* reset(), and clear(), which calls it
TimeoutReset ==
    LET cleared == ClearTimeout(tmoTimers, tmoTimeoutRef)
        c == TimeoutCommit(cleared, NoTimer, tmoIsRunning, tmoTimeRemaining,
                           FALSE, tmoDelay, tmoSinceStart, tmoDelay)
    IN  /\ TimeoutApiCall
        /\ TimeoutPublish(c, tmoDelay, 0)
        /\ tmoCounting' = FALSE
        /\ tmoInvoked' = 0
        /\ tmoRan' = 0
        /\ tmoWasReset' = TRUE

\* The timeout fires: the callback, then the three state updates.
TimeoutFires ==
    LET c == TimeoutCommit(Tail(tmoTimers), tmoTimeoutRef, tmoIsRunning,
                           tmoTimeRemaining, FALSE, 0, tmoSinceStart,
                           tmoRemainingRef)
    IN  /\ TimerDue(tmoTimers)
        /\ tmoTimers[1].kind = "timeout"
        /\ TimeoutPublish(c, 0, tmoDelay)
        /\ tmoInvoked' = Min(tmoInvoked + 1, 2)
        /\ tmoCounting' = FALSE
        /\ UNCHANGED << tmoDelay, tmoAutoStart, tmoMounted, tmoApiCalls,
                        tmoRan, tmoWasReset >>
        /\ UNCHANGED outsideTimeout

\* A tick of the interval; the host has scheduled the next tick before the
\* commits run.
IntervalFires ==
    LET t == tmoTimers[1]
        remaining == Max(0, tmoRemainingRef - tmoSinceStart)
        q1 == SetTimeout(Tail(tmoTimers), IntervalTimer(t.id))
        c == TimeoutCommit(q1, tmoTimeoutRef, tmoIsRunning, tmoTimeRemaining,
                           tmoIsRunning /\ remaining # 0, remaining,
                           tmoSinceStart, tmoRemainingRef)
    IN  /\ TimerDue(tmoTimers)
        /\ t.kind = "interval"
        /\ TimeoutPublish(c, remaining, tmoDelay - remaining)
        /\ UNCHANGED << tmoDelay, tmoAutoStart, tmoMounted, tmoApiCalls,
                        tmoInvoked, tmoCounting, tmoRan, tmoWasReset >>
        /\ UNCHANGED outsideTimeout

\* The component unmounts: the cleanups of the two effects.
TimeoutUnmount ==
    /\ tmoMounted
    /\ tmoMounted' = FALSE
    /\ tmoTimers' = ClearTimeout(ClearInterval(tmoTimers), tmoTimeoutRef)
    /\ tmoCounting' = FALSE
    /\ UNCHANGED << tmoDelay, tmoAutoStart, tmoIsRunning, tmoTimeRemaining,
                    tmoTimeElapsed, tmoTimeoutRef, tmoSinceStart,
                    tmoRemainingRef, tmoApiCalls, tmoInvoked, tmoRan,
                    tmoWasReset >>
    /\ UNCHANGED outsideTimeout

\* Time passes, also while no timer is outstanding, as long as the user
\* has the timeout counting or a timer is outstanding.
TimeoutTick ==
    /\ ~TimerDue(tmoTimers)
    /\ tmoMounted
    /\ tmoCounting \/ tmoTimers # <<>>
    /\ tmoTimers' = Elapse(tmoTimers)
    /\ tmoSinceStart' = Min(tmoSinceStart + 1, MaxTimeoutDelay)
    /\ tmoRan' = IF tmoCounting THEN Min(tmoRan + 1, tmoDelay + 1) ELSE tmoRan
    /\ UNCHANGED << tmoDelay, tmoAutoStart, tmoIsRunning, tmoTimeRemaining,
                    tmoTimeElapsed, tmoTimeoutRef, tmoRemainingRef,
                    tmoMounted, tmoApiCalls, tmoInvoked, tmoCounting,
                    tmoWasReset >>
    /\ UNCHANGED outsideTimeout

(***************************************************************************)
(*                            useDelayedState                              *)
(*                                                                         *)
(* Time is counted in units of the countdown's polling period.  Values are *)
(* small numbers; the initial value is 0.                                   *)
(***************************************************************************)

\* Bounds of the useDelayedState model.
MaxDelayedDelay == 2    \* largest delay, in time units
MaxDelayedValue == 2    \* largest value passed to setValue or setImmediate
MaxDelayedCalls == 3    \* setValue/setImmediate/cancel calls per behaviour

\* The polling period of the countdown in time units.
DelayedPoll == DelayedPollMs \div DelayedPollMs

\* pendingValueRef.current = null
NoPendingValue == 0 - 1

\* setTimeout(() => { setValue_internal(resolvedValue); ... }, delay)
ApplyTimer(id, resolvedValue, wait) ==
    [ id |-> id, wait |-> wait, kind |-> "apply", val |-> resolvedValue,
      left |-> 0 ]

\* setTimeout(updateCountdown, 100)
DelayedPoller(id) ==
    [ id |-> id, wait |-> DelayedPoll, kind |-> "countdown",
      val |-> NoPendingValue, left |-> 0 ]

\* clearTimers() without its first half
DelayedClearTimers_CountdownOnly(q) == ClearTimeout(q, dsCountdownRef)

\* clearTimers(): both handles are cleared (and set to null by the caller
\* of this operator).
DelayedClearTimers(q) ==
    ClearTimeout(ClearTimeout(q, dsTimeoutRef), dsCountdownRef)

\* The effect that syncs immediateValue with value when nothing is pending.
DelayedSync(imm, val, pend) == IF ~pend /\ imm # val THEN val ELSE imm

DelayedInit ==
    /\ dsDelay \in 0..MaxDelayedDelay
    /\ dsImmediate \in BOOLEAN
    /\ dsValue = 0
    /\ dsImmediateValue = 0
    /\ dsIsPending = FALSE
    /\ dsTimeRemaining = 0
    /\ dsTimeoutRef = NoTimer
    /\ dsCountdownRef = NoTimer
    /\ dsSinceStart = MaxDelayedDelay
    /\ dsPendingValueRef = NoPendingValue
    /\ dsIsFirstUpdateRef = TRUE
    /\ dsIsPendingRef = FALSE
    /\ dsMounted = TRUE
    /\ dsTimers = <<>>
    /\ dsCalls = 0
    /\ dsLatest = 0
    /\ dsSinceSet = 0
    /\ dsAwaiting = FALSE
    /\ dsSuperseded = NoPendingValue

DelayedApiCall ==
    /\ dsMounted
    /\ dsCalls < MaxDelayedCalls
    /\ dsCalls' = dsCalls + 1
    /\ UNCHANGED << dsDelay, dsImmediate, dsMounted >>
    /\ UNCHANGED outsideDelayed

\* setValue(newValue)
DelayedSetValue ==
    \E v \in 0..MaxDelayedValue :
        LET cleared == DelayedClearTimers(dsTimers)
            pollId == FreshId(cleared, {})
            polled == IF dsDelay > 0
                      THEN SetTimeout(cleared, DelayedPoller(pollId))
                      ELSE cleared
            id == FreshId(polled, {})
        IN  /\ DelayedApiCall
            /\ dsPendingValueRef' = v
            /\ dsIsFirstUpdateRef' = FALSE
            /\ dsLatest' = v
            /\ dsSinceSet' = 0
            /\ dsSuperseded' = IF dsAwaiting THEN dsPendingValueRef
                               ELSE dsSuperseded
            /\ IF dsImmediate /\ dsIsFirstUpdateRef
               THEN /\ dsValue' = v
                    /\ dsImmediateValue' = DelayedSync(v, v, dsIsPending)
                    /\ dsTimers' = cleared
                    /\ dsTimeoutRef' = NoTimer
                    /\ dsCountdownRef' = NoTimer
                    /\ dsAwaiting' = FALSE
                    /\ UNCHANGED << dsIsPending, dsIsPendingRef,
                                    dsTimeRemaining, dsSinceStart >>
               ELSE /\ dsImmediateValue' = DelayedSync(v, dsValue, TRUE)
                    /\ dsIsPending' = TRUE
                    /\ dsIsPendingRef' = TRUE
                    /\ dsSinceStart' = 0
                    /\ dsTimeRemaining' = dsDelay
                    /\ dsCountdownRef' = IF dsDelay > 0 THEN pollId ELSE NoTimer
                    /\ dsTimeoutRef' = id
                    /\ dsTimers' = SetTimeout(polled, ApplyTimer(id, v, dsDelay))
                    /\ dsAwaiting' = TRUE
                    /\ UNCHANGED dsValue

\* setImmediate(newValue)
DelayedSetImmediate ==
    \E v \in 0..MaxDelayedValue :
        /\ DelayedApiCall
        /\ dsTimers' = DelayedClearTimers(dsTimers)
        /\ dsTimeoutRef' = NoTimer
        /\ dsCountdownRef' = NoTimer
        /\ dsValue' = v
        /\ dsImmediateValue' = DelayedSync(v, v, FALSE)
        /\ dsIsPending' = FALSE
        /\ dsIsPendingRef' = FALSE
        /\ dsTimeRemaining' = 0
        /\ dsPendingValueRef' = NoPendingValue
        /\ dsLatest' = v
        /\ dsAwaiting' = FALSE
        /\ UNCHANGED << dsSinceStart, dsIsFirstUpdateRef, dsSinceSet,
                        dsSuperseded >>

\* cancel()
DelayedCancel ==
    /\ DelayedApiCall
    /\ UNCHANGED dsSuperseded
    /\ IF ~dsIsPending
       THEN UNCHANGED << dsValue, dsImmediateValue, dsIsPending,
                         dsTimeRemaining, dsTimeoutRef, dsCountdownRef,
                         dsSinceStart, dsPendingValueRef, dsIsFirstUpdateRef,
                         dsIsPendingRef, dsTimers, dsLatest, dsSinceSet,
                         dsAwaiting >>
       ELSE /\ dsTimers' = DelayedClearTimers(dsTimers)
            /\ dsTimeoutRef' = NoTimer
            /\ dsCountdownRef' = NoTimer
            /\ dsImmediateValue' = DelayedSync(dsValue, dsValue, FALSE)
            /\ dsIsPending' = FALSE
            /\ dsIsPendingRef' = FALSE
            /\ dsTimeRemaining' = 0
            /\ dsPendingValueRef' = NoPendingValue
            /\ dsAwaiting' = FALSE
            /\ UNCHANGED << dsValue, dsSinceStart, dsIsFirstUpdateRef,
                            dsLatest, dsSinceSet >>

\* The delayed-update timer fires.
DelayedApply ==
    LET t == dsTimers[1]
    IN  /\ TimerDue(dsTimers)
        /\ t.kind = "apply"
        /\ dsTimers' = Tail(dsTimers)
        /\ dsValue' = t.val
        /\ dsImmediateValue' = DelayedSync(dsImmediateValue, t.val, FALSE)
        /\ dsIsPending' = FALSE
        /\ dsIsPendingRef' = FALSE
        /\ dsTimeRemaining' = 0
        /\ dsPendingValueRef' = NoPendingValue
        /\ dsAwaiting' = FALSE
        /\ UNCHANGED << dsDelay, dsImmediate, dsTimeoutRef, dsCountdownRef,
                        dsSinceStart, dsIsFirstUpdateRef, dsMounted, dsCalls,
                        dsLatest, dsSinceSet, dsSuperseded >>
        /\ UNCHANGED outsideDelayed

\* The countdown poller fires: updateCountdown().
DelayedCountdown ==
    LET t == dsTimers[1]
        remaining == Max(0, dsDelay - dsSinceStart)
        again == dsIsPendingRef /\ remaining > 0
    IN  /\ TimerDue(dsTimers)
        /\ t.kind = "countdown"
        /\ dsTimeRemaining' = IF dsIsPendingRef THEN remaining
                              ELSE dsTimeRemaining
        /\ dsTimers' = IF again
                       THEN SetTimeout(Tail(dsTimers), DelayedPoller(t.id))
                       ELSE Tail(dsTimers)
        /\ dsCountdownRef' = IF again THEN t.id ELSE dsCountdownRef
        /\ UNCHANGED << dsDelay, dsImmediate, dsValue, dsImmediateValue,
                        dsIsPending, dsTimeoutRef, dsSinceStart,
                        dsPendingValueRef, dsIsFirstUpdateRef,
                        dsIsPendingRef, dsMounted, dsCalls, dsLatest,
                        dsSinceSet, dsAwaiting, dsSuperseded >>
        /\ UNCHANGED outsideDelayed

\* The component unmounts: clearTimers().
DelayedUnmount ==
    /\ dsMounted
    /\ dsMounted' = FALSE
    /\ dsTimers' = DelayedClearTimers(dsTimers)
    /\ dsTimeoutRef' = NoTimer
    /\ dsCountdownRef' = NoTimer
    /\ dsAwaiting' = FALSE
    /\ UNCHANGED << dsDelay, dsImmediate, dsValue, dsImmediateValue,
                    dsIsPending, dsTimeRemaining, dsSinceStart,
                    dsPendingValueRef, dsIsFirstUpdateRef, dsIsPendingRef,
                    dsCalls, dsLatest, dsSinceSet, dsSuperseded >>
    /\ UNCHANGED outsideDelayed

\* Time passes.
DelayedTick ==
    /\ ~TimerDue(dsTimers)
    /\ dsMounted
    /\ dsTimers # <<>> \/ dsSinceSet < MaxDelayedDelay + 1
    /\ dsTimers' = Elapse(dsTimers)
    /\ dsSinceStart' = Min(dsSinceStart + 1, MaxDelayedDelay)
    /\ dsSinceSet' = Min(dsSinceSet + 1, MaxDelayedDelay + 1)
    /\ UNCHANGED << dsDelay, dsImmediate, dsValue, dsImmediateValue,
                    dsIsPending, dsTimeRemaining, dsTimeoutRef,
                    dsCountdownRef, dsPendingValueRef, dsIsFirstUpdateRef,
                    dsIsPendingRef, dsMounted, dsCalls, dsLatest,
                    dsAwaiting, dsSuperseded >>
    /\ UNCHANGED outsideDelayed

(***************************************************************************)
(*                         useSequentialExecution                          *)
(*                                                                         *)
(* Time is counted in units of the interval that refreshes timeRemaining.  *)
(* A step is its timeout; step indices count from 0 as in the source.  A   *)
(* step function either returns at once, and then the continuation of      *)
(* `await step.fn()` runs before any other handler, or it returns a        *)
(* promise that settles later.                                             *)
(***************************************************************************)

\* Bounds of the useSequentialExecution model.
MaxSteps == 2             \* largest number of steps
MaxStepTimeout == 2       \* largest timeout of a step, in time units
MaxSequentialCalls == 3   \* start/stop/reset/toggle calls per behaviour
MaxCycles == 2            \* step timers fire while cyclesCompleted is less

\* The interval period in time units.
SequentialPoll == SequentialPollMs \div SequentialPollMs

NoStep == 0 - 1

\* The non-empty steps arrays.
StepLists == UNION { [ 1..n -> 1..MaxStepTimeout ] : n \in 1..MaxSteps }

\* steps[stepIndex].timeout
StepTimeout(stepIndex) == seqSteps[stepIndex + 1]

\* setTimeout(() => { void executeAndScheduleNext(stepIndex); }, timeout)
StepTimer(id, stepIndex, wait) ==
    [ id |-> id, wait |-> wait, kind |-> "step", step |-> stepIndex,
      left |-> 0 ]

\* setInterval(..., 100), as the timer of its next tick
SequentialInterval(id) ==
    [ id |-> id, wait |-> SequentialPoll, kind |-> "interval",
      step |-> 0, left |-> 0 ]

SequentialOp(op, stepIndex, sync) ==
    [ op |-> op, step |-> stepIndex, sync |-> sync ]

\* The commit after a handler that left the timer queue q and the handle
\* ref and set isRunning to run1 and currentStepIndex to idx1: when one of
\* the two changed, the effect that owns the interval is cleaned up
\* (clearInterval when it was running) and run again (setInterval when
\* isRunning is true).
SequentialCommit(q, ref, run1, idx1) ==
    LET changed == run1 # seqIsRunning \/ idx1 # seqCurrentStepIndex
        qa == IF changed /\ seqIsRunning THEN ClearInterval(q) ELSE q
        id == FreshId(qa, {ref} \ {NoTimer})
    IN  IF changed /\ run1 THEN SetTimeout(qa, SequentialInterval(id)) ELSE qa

\* Mount.  isRunning and isRunningRef start as autoStart, so the auto-start
\* effect, which requires !isRunningRef.current, schedules nothing; with
\* autoStart the interval runs.
SequentialInit ==
    /\ seqSteps \in StepLists
    /\ seqLoop \in BOOLEAN
    /\ seqAutoStart \in BOOLEAN
    /\ seqIsRunning = seqAutoStart
    /\ seqIsRunningRef = seqAutoStart
    /\ seqCurrentStepIndex = 0
    /\ seqCyclesCompleted = 0
    /\ seqTimeRemaining = 0
    /\ seqTimeoutRef = NoTimer
    /\ seqSinceStart = MaxStepTimeout
    /\ seqCurrentTimeoutRef = 0
    /\ seqMounted = TRUE
    /\ seqTimers = IF seqAutoStart THEN << SequentialInterval(1) >> ELSE << >>
    /\ seqRunning = [ i \in 0..(MaxSteps - 1) |-> 0 ]
    /\ seqApiCalls = 0
    /\ seqLastOp = SequentialOp("mount", NoStep, TRUE)
    /\ seqLastInvoked = NoStep
    /\ seqStopped = FALSE

\* executeAndScheduleNext(stepIndex) from the point where `await step.fn()`
\* has returned, with q the timer queue at that point.  The state setters do
\* nothing once the hook is unmounted; the refs and setTimeout still work.
executeAndScheduleNext(q, stepIndex) ==
    LET nextIndex == stepIndex + 1
        wraps == nextIndex >= Len(seqSteps)
        target == IF wraps THEN 0 ELSE nextIndex
        arms == ~wraps \/ seqLoop
        id == FreshId(q, {seqTimeoutRef} \ {NoTimer})
        q1 == IF arms
              THEN SetTimeout(q, StepTimer(id, target, StepTimeout(target)))
              ELSE q
        ref1 == IF arms THEN id ELSE seqTimeoutRef
        run1 == seqIsRunning /\ arms
        idx1 == IF arms THEN target ELSE seqCurrentStepIndex
    IN  /\ seqTimeoutRef' = ref1
        /\ seqSinceStart' = IF arms THEN 0 ELSE seqSinceStart
        /\ seqCurrentTimeoutRef' =
              IF arms THEN StepTimeout(target) ELSE seqCurrentTimeoutRef
        /\ IF seqMounted
           THEN /\ seqTimers' = SequentialCommit(q1, ref1, run1, idx1)
                /\ seqIsRunning' = run1
                /\ seqIsRunningRef' = run1
                /\ seqCurrentStepIndex' = idx1
                /\ seqCyclesCompleted' =
                      IF wraps THEN seqCyclesCompleted + 1
                      ELSE seqCyclesCompleted
                /\ seqTimeRemaining' = IF arms THEN StepTimeout(target) ELSE 0
           ELSE /\ seqTimers' = q1
                /\ UNCHANGED << seqIsRunning, seqIsRunningRef,
                                seqCurrentStepIndex, seqCyclesCompleted,
                                seqTimeRemaining >>

\* A step timer fires: executeAndScheduleNext(stepIndex) calls the step's
\* function.  A function that returns a promise leaves the call waiting.
StepFires ==
    LET t == seqTimers[1]
    IN  /\ TimerDue(seqTimers)
        /\ t.kind = "step"
        /\ seqCyclesCompleted < MaxCycles
        /\ \E sync \in BOOLEAN :
              /\ seqLastOp' = SequentialOp("step", t.step, sync)
              /\ IF sync
                 THEN /\ executeAndScheduleNext(Tail(seqTimers), t.step)
                      /\ UNCHANGED seqRunning
                 ELSE /\ seqTimers' = Tail(seqTimers)
                      /\ seqRunning' = [ seqRunning EXCEPT ![t.step] = @ + 1 ]
                      /\ UNCHANGED << seqIsRunning, seqIsRunningRef,
                                      seqCurrentStepIndex, seqCyclesCompleted,
                                      seqTimeRemaining, seqTimeoutRef,
                                      seqSinceStart, seqCurrentTimeoutRef >>
        /\ seqLastInvoked' = t.step
        /\ UNCHANGED << seqSteps, seqLoop, seqAutoStart, seqMounted,
                        seqApiCalls, seqStopped >>
        /\ UNCHANGED outsideSequential

\* The promise of a step function settles (a rejection is caught and
\* logged): executeAndScheduleNext goes on.
StepSettles ==
    \E i \in 0..(MaxSteps - 1) :
        /\ seqRunning[i] > 0
        /\ seqRunning' = [ seqRunning EXCEPT ![i] = @ - 1 ]
        /\ executeAndScheduleNext(seqTimers, i)
        /\ seqLastOp' = SequentialOp("settle", i, FALSE)
        /\ UNCHANGED << seqSteps, seqLoop, seqAutoStart, seqMounted,
                        seqApiCalls, seqLastInvoked, seqStopped >>
        /\ UNCHANGED outsideSequential

\* The body of start()
SequentialStartEffects ==
    IF seqIsRunningRef \/ seqTimeoutRef # NoTimer
    THEN UNCHANGED << seqIsRunning, seqIsRunningRef, seqCurrentStepIndex,
                      seqCyclesCompleted, seqTimeRemaining, seqTimeoutRef,
                      seqSinceStart, seqCurrentTimeoutRef, seqTimers,
                      seqLastInvoked >>
    ELSE LET id == FreshId(seqTimers, {})
             q1 == SetTimeout(seqTimers, StepTimer(id, 0, StepTimeout(0)))
         IN  /\ seqTimers' = SequentialCommit(q1, id, TRUE, 0)
             /\ seqTimeoutRef' = id
             /\ seqIsRunning' = TRUE
             /\ seqIsRunningRef' = TRUE
             /\ seqCurrentStepIndex' = 0
             /\ seqSinceStart' = 0
             /\ seqCurrentTimeoutRef' = StepTimeout(0)
             /\ seqTimeRemaining' = StepTimeout(0)
             /\ seqLastInvoked' = NoStep
             /\ UNCHANGED seqCyclesCompleted

\* The body of stop()
SequentialStopEffects ==
    /\ seqTimers' = SequentialCommit(ClearTimeout(seqTimers, seqTimeoutRef),
                                     NoTimer, FALSE, seqCurrentStepIndex)
    /\ seqTimeoutRef' = NoTimer
    /\ seqIsRunning' = FALSE
    /\ seqIsRunningRef' = FALSE
    /\ seqTimeRemaining' = 0
    /\ UNCHANGED << seqCurrentStepIndex, seqCyclesCompleted, seqSinceStart,
                    seqCurrentTimeoutRef, seqLastInvoked >>

SequentialApiCall(op) ==
    /\ seqMounted
    /\ seqApiCalls < MaxSequentialCalls
    /\ seqApiCalls' = seqApiCalls + 1
    /\ seqLastOp' = SequentialOp(op, NoStep, TRUE)
    /\ UNCHANGED << seqSteps, seqLoop, seqAutoStart, seqMounted, seqRunning >>
    /\ UNCHANGED outsideSequential

\* start()
SequentialStart ==
    /\ SequentialApiCall("start")
    /\ SequentialStartEffects
    /\ seqStopped' = FALSE

\* stop()
SequentialStop ==
    /\ SequentialApiCall("stop")
    /\ SequentialStopEffects
    /\ seqStopped' = TRUE

\* reset()
SequentialReset ==
    /\ SequentialApiCall("reset")
    /\ seqTimers' = SequentialCommit(ClearTimeout(seqTimers, seqTimeoutRef),
                                     NoTimer, FALSE, 0)
    /\ seqTimeoutRef' = NoTimer
    /\ seqIsRunning' = FALSE
    /\ seqIsRunningRef' = FALSE
    /\ seqCurrentStepIndex' = 0
    /\ seqCyclesCompleted' = 0
    /\ seqTimeRemaining' = 0
    /\ seqStopped' = TRUE
    /\ UNCHANGED << seqSinceStart, seqCurrentTimeoutRef, seqLastInvoked >>

\* toggle()
SequentialToggle ==
    /\ SequentialApiCall("toggle")
    /\ IF seqIsRunning
       THEN SequentialStopEffects /\ seqStopped' = TRUE
       ELSE SequentialStartEffects /\ seqStopped' = FALSE

\* A tick of the interval: timeRemaining is refreshed.
SequentialIntervalFires ==
    LET t == seqTimers[1]
    IN  /\ TimerDue(seqTimers)
        /\ t.kind = "interval"
        /\ seqTimers' = SetTimeout(Tail(seqTimers), SequentialInterval(t.id))
        /\ seqTimeRemaining' = Max(0, seqCurrentTimeoutRef - seqSinceStart)
        /\ seqLastOp' = SequentialOp("interval", NoStep, TRUE)
        /\ UNCHANGED << seqSteps, seqLoop, seqAutoStart, seqIsRunning,
                        seqCurrentStepIndex, seqCyclesCompleted,
                        seqTimeoutRef, seqSinceStart, seqCurrentTimeoutRef,
                        seqIsRunningRef, seqMounted, seqRunning, seqApiCalls,
                        seqLastInvoked, seqStopped >>
        /\ UNCHANGED outsideSequential

\* The component unmounts: clearInterval, and the cleanup of the auto-start
\* effect clears the timer timeoutRef names.
SequentialUnmount ==
    /\ seqMounted
    /\ seqMounted' = FALSE
    /\ seqTimers' = ClearTimeout(ClearInterval(seqTimers), seqTimeoutRef)
    /\ seqLastOp' = SequentialOp("unmount", NoStep, TRUE)
    /\ UNCHANGED << seqSteps, seqLoop, seqAutoStart, seqIsRunning,
                    seqCurrentStepIndex, seqCyclesCompleted, seqTimeRemaining,
                    seqTimeoutRef, seqSinceStart, seqCurrentTimeoutRef,
                    seqIsRunningRef, seqRunning, seqApiCalls, seqLastInvoked,
                    seqStopped >>
    /\ UNCHANGED outsideSequential

\* Time passes while a timer is waiting.
SequentialTick ==
    /\ CanElapse(seqTimers)
    /\ seqTimers' = Elapse(seqTimers)
    /\ seqSinceStart' = Min(seqSinceStart + 1, MaxStepTimeout)
    /\ seqLastOp' = SequentialOp("tick", NoStep, TRUE)
    /\ UNCHANGED << seqSteps, seqLoop, seqAutoStart, seqIsRunning,
                    seqCurrentStepIndex, seqCyclesCompleted, seqTimeRemaining,
                    seqTimeoutRef, seqCurrentTimeoutRef, seqIsRunningRef,
                    seqMounted, seqRunning, seqApiCalls, seqLastInvoked,
                    seqStopped >>
    /\ UNCHANGED outsideSequential

(***************************************************************************)
(*                            Specifications                               *)
(***************************************************************************)

\* The useBatchedUpdates instance while only the useRetry instance is used.
BatchIdle ==
    /\ batchOpts = [ batchWindow |-> MaxBatchWindow,
                     maxBatchSize |-> MaxBatchSize,
                     flushOnFirst |-> FALSE, reducer |-> "append" ]
    /\ pendingUpdates = <<>>
    /\ timeUntilFlush = 0
    /\ batchTimeoutRef = NoTimer
    /\ batchCountdownRef = NoTimer
    /\ startElapsed = MaxBatchWindow
    /\ isFirstUpdateRef = TRUE
    /\ hasPendingUpdatesRef = FALSE
    /\ mounted = TRUE
    /\ batchTimers = <<>>
    /\ added = 0
    /\ rerenders = 0
    /\ count = [ u \in Updates |-> 0 ]
    /\ calls = <<>>
    /\ lastOp = Op("mount")
    /\ windowAdds = <<>>
    /\ sinceFirst = 0

\* The useThrottle instance while it is not used.
ThrottleIdle ==
    /\ thrDelay = MaxThrottleDelay
    /\ thrSinceRun = MaxThrottleDelay
    /\ thrTimeoutRef = NoTimer
    /\ thrTimers = <<>>
    /\ thrMounted = TRUE
    /\ thrCalled = 0
    /\ thrInvocations = 0
    /\ thrLast = NoInvocation
    /\ thrSinceInvoke = 0

\* The useTimeout instance while it is not used: mounted without
\* autoStart.
TimeoutIdle ==
    /\ tmoDelay = MaxTimeoutDelay
    /\ tmoAutoStart = FALSE
    /\ tmoIsRunning = FALSE
    /\ tmoTimeRemaining = MaxTimeoutDelay
    /\ tmoTimeElapsed = 0
    /\ tmoTimeoutRef = NoTimer
    /\ tmoSinceStart = MaxTimeoutDelay
    /\ tmoRemainingRef = MaxTimeoutDelay
    /\ tmoMounted = TRUE
    /\ tmoTimers = <<>>
    /\ tmoApiCalls = 0
    /\ tmoInvoked = 0
    /\ tmoCounting = FALSE
    /\ tmoRan = 0
    /\ tmoWasReset = FALSE

\* The useDelayedState instance while it is not used.
DelayedIdle ==
    /\ dsDelay = MaxDelayedDelay
    /\ dsImmediate = FALSE
    /\ dsValue = 0
    /\ dsImmediateValue = 0
    /\ dsIsPending = FALSE
    /\ dsTimeRemaining = 0
    /\ dsTimeoutRef = NoTimer
    /\ dsCountdownRef = NoTimer
    /\ dsSinceStart = MaxDelayedDelay
    /\ dsPendingValueRef = NoPendingValue
    /\ dsIsFirstUpdateRef = TRUE
    /\ dsIsPendingRef = FALSE
    /\ dsMounted = TRUE
    /\ dsTimers = <<>>
    /\ dsCalls = 0
    /\ dsLatest = 0
    /\ dsSinceSet = 0
    /\ dsAwaiting = FALSE
    /\ dsSuperseded = NoPendingValue

\* The useSequentialExecution instance while it is not used: mounted
\* without autoStart.
SequentialIdle ==
    /\ seqSteps = << MaxStepTimeout >>
    /\ seqLoop = FALSE
    /\ seqAutoStart = FALSE
    /\ seqIsRunning = FALSE
    /\ seqIsRunningRef = FALSE
    /\ seqCurrentStepIndex = 0
    /\ seqCyclesCompleted = 0
    /\ seqTimeRemaining = 0
    /\ seqTimeoutRef = NoTimer
    /\ seqSinceStart = MaxStepTimeout
    /\ seqCurrentTimeoutRef = 0
    /\ seqMounted = TRUE
    /\ seqTimers = << >>
    /\ seqRunning = [ i \in 0..(MaxSteps - 1) |-> 0 ]
    /\ seqApiCalls = 0
    /\ seqLastOp = SequentialOp("mount", NoStep, TRUE)
    /\ seqLastInvoked = NoStep
    /\ seqStopped = FALSE

\* The hooks other than useRetry and useBatchedUpdates while not used.
OthersIdle == ThrottleIdle /\ TimeoutIdle /\ DelayedIdle /\ SequentialIdle

\* The delay model while it is not used.
CalcIdle ==
    /\ calcOpts = [ initialDelay |-> RetryPoll, backoffMultiplier |-> 2,
                    maxDelay |-> 2 * RetryPoll,
                    useExponentialBackoff |-> TRUE ]
    /\ calcRetry = 0
    /\ calcDelay = 0

\* The useRetry instance while only the useBatchedUpdates instance is used.
RetryIdle ==
    /\ opts = [ maxAttempts |-> MaxMaxAttempts, initialDelay |-> RetryPoll,
                backoffMultiplier |-> 2, maxDelay |-> 2 * RetryPoll,
                useExponentialBackoff |-> TRUE, shouldRetry |-> "always" ]
    /\ state = InitialRetryState
    /\ timeoutRef = NoTimer
    /\ countdownRef = NoTimer
    /\ cancelledRef = FALSE
    /\ retryTimers = <<>>
    /\ runs = [ r \in RunIds |-> IdleRun ]
    /\ lastCall = "none"
    /\ reruns = 0

RetryNext ==
    \/ Execute
    \/ \E r \in RunIds : OperationResolves(r)
    \/ \E r \in RunIds : OperationRejects(r)
    \/ RetryTimerFires
    \/ PollTimerFires
    \/ RetryTick
    \/ Cancel
    \/ Reset

InitRetry == RetryInit /\ BatchIdle /\ CalcIdle /\ OthersIdle

SpecRetry == InitRetry /\ [][RetryNext]_vars

RetryAgainNext ==
    \/ RetryNext
    \/ ExecuteAgain

InitRetryAgain == RetryInitLongWait /\ BatchIdle /\ CalcIdle /\ OthersIdle

SpecRetryAgain == InitRetryAgain /\ [][RetryAgainNext]_vars

BatchNext ==
    \/ AddUpdate
    \/ Flush
    \/ Clear
    \/ Rerender
    \/ Unmount
    \/ FlushTimerFires
    \/ CountdownFires
    \/ DeliverFires
    \/ BatchTick

InitBatch == BatchInit /\ RetryIdle /\ CalcIdle /\ OthersIdle

CalcNext == ScheduleRetry

InitCalc == CalcInit /\ RetryIdle /\ BatchIdle /\ OthersIdle

SpecCalc == InitCalc /\ [][CalcNext]_vars

SpecBatch == InitBatch /\ [][BatchNext]_vars

\* Timers of the host fire once they are due and time passes while a timer
\* is waiting: the event loop runs every due callback (useBatchedUpdates.ts
\* 221, 271, 289, 299).  The calls of the component are not forced.
SpecBatchFair ==
    /\ InitBatch
    /\ [][BatchNext]_vars
    /\ WF_vars(FlushTimerFires)
    /\ WF_vars(DeliverFires)
    /\ WF_vars(CountdownFires)
    /\ WF_vars(BatchTick)

ThrottleNext ==
    \/ ThrottledCall
    \/ TrailingFires
    \/ ThrottleUnmount
    \/ ThrottleTick

InitThrottle ==
    /\ ThrottleInit
    /\ RetryIdle /\ BatchIdle /\ CalcIdle /\ TimeoutIdle /\ DelayedIdle
    /\ SequentialIdle

SpecThrottle == InitThrottle /\ [][ThrottleNext]_vars

TimeoutNext ==
    \/ TimeoutStart
    \/ TimeoutPause
    \/ TimeoutToggle
    \/ TimeoutReset
    \/ TimeoutFires
    \/ IntervalFires
    \/ TimeoutUnmount
    \/ TimeoutTick

InitTimeout ==
    /\ TimeoutInit
    /\ RetryIdle /\ BatchIdle /\ CalcIdle /\ ThrottleIdle /\ DelayedIdle
    /\ SequentialIdle

SpecTimeout == InitTimeout /\ [][TimeoutNext]_vars

DelayedNext ==
    \/ DelayedSetValue
    \/ DelayedSetImmediate
    \/ DelayedCancel
    \/ DelayedApply
    \/ DelayedCountdown
    \/ DelayedUnmount
    \/ DelayedTick

InitDelayed ==
    /\ DelayedInit
    /\ RetryIdle /\ BatchIdle /\ CalcIdle /\ ThrottleIdle /\ TimeoutIdle
    /\ SequentialIdle

SpecDelayed == InitDelayed /\ [][DelayedNext]_vars

SequentialNext ==
    \/ SequentialStart
    \/ SequentialStop
    \/ SequentialReset
    \/ SequentialToggle
    \/ StepFires
    \/ StepSettles
    \/ SequentialIntervalFires
    \/ SequentialUnmount
    \/ SequentialTick

InitSequential ==
    /\ SequentialInit
    /\ RetryIdle /\ BatchIdle /\ CalcIdle
    /\ ThrottleIdle /\ TimeoutIdle /\ DelayedIdle

SpecSequential == InitSequential /\ [][SequentialNext]_vars

(***************************************************************************)
(*                      Properties of useRetry                             *)
(***************************************************************************)

RetryTimerOf(r) ==
    { i \in 1..Len(retryTimers) :
        retryTimers[i].kind = "retry" /\ retryTimers[i].run = r }

\* C1 (attempt counting).  With shouldRetry always true, a run during which
\* neither cancel() nor reset() was called never invokes the operation more
\* than maxAttempts + 1 times and does not invoke onMaxAttemptsReached
\* before it ends; when its operation has failed on every call, the run has
\* invoked the operation exactly maxAttempts + 1 times, has invoked
\* onMaxAttemptsReached exactly once, with (lastError, maxAttempts + 1), and
\* its promise is rejected with that last error.
C1_AttemptCounting ==
    \A r \in RunIds :
        (opts.shouldRetry = "always" /\ ~runs[r].touched) =>
            /\ runs[r].calls <= opts.maxAttempts + 1
            /\ runs[r].phase # "done" => runs[r].onMax = <<>>
            /\ runs[r].promise = "rejected" =>
                  /\ runs[r].calls = opts.maxAttempts + 1
                  /\ runs[r].fails = runs[r].calls
                  /\ runs[r].lastErr = Err(r, opts.maxAttempts)
                  /\ runs[r].onMax =
                        << << runs[r].lastErr, opts.maxAttempts + 1 >> >>
                  /\ runs[r].outcome = runs[r].lastErr

\* A run with maxAttempts = MaxMaxAttempts has failed for good after the
\* initial attempt and every retry.
C1_Witness ==
    \E r \in RunIds :
        /\ opts.shouldRetry = "always"
        /\ opts.maxAttempts = MaxMaxAttempts
        /\ ~runs[r].touched
        /\ runs[r].promise = "rejected"
        /\ runs[r].calls = MaxMaxAttempts + 1
        /\ Len(runs[r].onMax) = 1

\* C2 (the execute() promise settles).  A pending execute() promise has
\* something left that settles it once operations settle and timers fire:
\* an attempt in flight, or an outstanding retry-wait timer of its run.
C2_PromiseSettles ==
    \A r \in RunIds :
        runs[r].promise = "pending" =>
            \/ runs[r].phase = "attempting"
            \/ RetryTimerOf(r) # {}

\* C3 (cancel during the backoff wait).  Once cancel() was called during a
\* backoff wait of a run, that run never invokes the operation again; and
\* until the next execute() no timer of that wait (retry-wait timer or
\* countdown poller) is outstanding and the published state has
\* isRetrying = false and timeUntilNextRetry = 0.
C3_CancelDuringWait ==
    [][ \A r \in RunIds :
          /\ runs[r].cwait # "no" => runs'[r].calls = runs[r].calls
          /\ runs'[r].cwait = "fresh" =>
                /\ ~state'.isRetrying
                /\ state'.timeUntilNextRetry = 0
                /\ \A i \in 1..Len(retryTimers') :
                      ~(retryTimers'[i].run = r
                          /\ retryTimers'[i].n = runs'[r].n + 1) ]_vars

\* C4 (failure of a cancelled attempt).  When an attempt fails and cancel()
\* was called while it was in flight, the promise is rejected with the
\* cancellation error and that failure invokes neither shouldRetry nor
\* onMaxAttemptsReached.
C4_CancelledFailure ==
    [][ \A r \in RunIds :
          ( /\ runs[r].phase = "attempting"
            /\ runs[r].cflight
            /\ runs'[r].fails = runs[r].fails + 1 ) =>
              /\ runs'[r].promise = "rejected"
              /\ runs'[r].outcome = CancelError
              /\ runs'[r].srCalls = runs[r].srCalls
              /\ runs'[r].onMax = runs[r].onMax ]_vars

\* C5 (no state change after cancel).  When an attempt that was in flight at
\* cancel() succeeds or fails before the next execute(), the published
\* RetryState stays as it was.
C5_NoPublishAfterCancel ==
    [][ \A r \in RunIds :
          ( /\ runs[r].phase = "attempting"
            /\ runs[r].cflight
            /\ cancelledRef
            /\ runs'[r].phase = "done" ) =>
              state' = state ]_vars

C16_VetoAndExhaustion ==
    [][ \A r \in RunIds :
          LET n == runs[r].n
              e == Err(r, n)
              failedNow == /\ runs[r].phase = "attempting"
                           /\ runs'[r].fails = runs[r].fails + 1
          IN  /\ (failedNow /\ ~ShouldRetry(opts, e, n)) =>
                    /\ n <= opts.maxAttempts
                    /\ runs'[r].promise = "rejected"
                    /\ runs'[r].outcome = e
                    /\ runs'[r].onRetry = runs[r].onRetry
                    /\ retryTimers' = retryTimers
                    /\ ~state'.isRetrying
                    /\ state'.lastError = e
              /\ failedNow =>
                    runs'[r].onMax =
                        IF runs'[r].phase = "done" /\ n >= opts.maxAttempts
                        THEN Append(runs[r].onMax, << e, n + 1 >>)
                        ELSE runs[r].onMax
              /\ ~failedNow => runs'[r].onMax = runs[r].onMax
              /\ Len(runs'[r].onMax) <= 1
              /\ runs[r].phase = "done" =>
                    /\ runs'[r].phase = "done"
                    /\ runs'[r].calls = runs[r].calls
                    /\ runs'[r].onRetry = runs[r].onRetry ]_vars

\* C16 witness: a shouldRetry veto ended a run at its first failure with an
\* attempt left, without onMaxAttemptsReached.
C16_Witness ==
    \E r \in RunIds :
        /\ opts.shouldRetry = "never"
        /\ opts.maxAttempts >= 1
        /\ runs[r].promise = "rejected"
        /\ runs[r].outcome = Err(r, 0)
        /\ runs[r].calls = 1
        /\ runs[r].onRetry = <<>>
        /\ runs[r].onMax = <<>>
        /\ ~state.isRetrying
        /\ state.lastError = Err(r, 0)

\* C17 (ordering of the operation calls).  In a run that no other
\* execute() overlapped, at most one operation call is in flight, and a
\* further call starts only from the backoff wait, after every earlier call
\* has rejected and after at least the delay computed for that retry (the
\* one passed to onRetry) has elapsed since the last rejection.
C17_CallsOrdered ==
    [][ \A r \in RunIds :
          ~runs[r].overlap =>
             /\ runs[r].calls - runs[r].fails \in {0, 1}
             /\ runs[r].phase = "attempting" <=>
                   (runs[r].calls = runs[r].fails + 1 /\ runs[r].promise = "pending")
             /\ (runs[r].phase # "idle" /\ runs'[r].calls # runs[r].calls) =>
                   /\ runs'[r].calls = runs[r].calls + 1
                   /\ runs[r].phase = "waiting"
                   /\ runs[r].fails = runs[r].calls
                   /\ Len(runs[r].onRetry) = runs[r].calls
                   /\ runs[r].onRetry[runs[r].calls][1] = runs[r].calls
                   /\ runs[r].waited >= runs[r].onRetry[runs[r].calls][2] ]_vars

\* C17 witness: the retry of a run is in flight after a backoff wait of a
\* full polling period or more.
C17_Witness ==
    \E r \in RunIds :
        /\ ~runs[r].overlap
        /\ runs[r].phase = "attempting"
        /\ runs[r].calls = 2
        /\ runs[r].fails = 1
        /\ runs[r].onRetry = << << 1, RetryPoll >> >>
        /\ runs[r].waited = RetryPoll

\* The run of the latest execute() call, if any.
LatestRun ==
    { r \in RunIds :
        /\ runs[r].phase # "idle"
        /\ \A q \in RunIds : q > r => runs[q].phase = "idle" }

\* C18 (attempt counters).  From the first attempt of a run until the next
\* reset(), every published state has totalAttempts = currentAttempt + 1
\* and currentAttempt <= maxAttempts; the counters are both 0 only before
\* the first execute() and after a reset() that no execute() followed.
C18_AttemptCounters ==
    \/ /\ LatestRun # {}
       /\ state.totalAttempts = state.currentAttempt + 1
       /\ state.currentAttempt <= opts.maxAttempts
    \/ /\ LatestRun = {} \/ cancelledRef
       /\ state.totalAttempts = 0
       /\ state.currentAttempt = 0

\* C18 witness: the last retry the options allow is in flight.
C18_Witness ==
    \E r \in LatestRun :
        /\ opts.maxAttempts = MaxMaxAttempts
        /\ runs[r].phase = "attempting"
        /\ ~runs[r].overlap
        /\ state.currentAttempt = MaxMaxAttempts
        /\ state.totalAttempts = MaxMaxAttempts + 1

\* C19 (isRetrying).  For the latest run, when no other execute() overlapped
\* it: isRetrying is true while the run is attempting or in a backoff wait
\* and neither cancel() nor reset() was called during it, and false once it
\* has ended by success, exhaustion, veto or cancel(); before the first
\* execute() it is false.
C19_IsRetrying ==
    /\ LatestRun = {} => ~state.isRetrying
    /\ \A r \in LatestRun :
          ~runs[r].overlap =>
             ( state.isRetrying <=>
                 /\ runs[r].phase \in {"attempting", "waiting"}
                 /\ ~runs[r].touched )

\* C19 witness: isRetrying is true in the backoff wait of a run, a polling
\* period after the failure.
C19_Witness ==
    \E r \in LatestRun :
        /\ ~runs[r].overlap
        /\ ~runs[r].touched
        /\ runs[r].phase = "waiting"
        /\ runs[r].waited >= RetryPoll
        /\ state.isRetrying

\* C20 (reset).  After reset(), in whatever phase it was called, the state
\* is the initial one, the cancellation flag is set, both timer refs are
\* empty, and no retry-wait timer or countdown poller is outstanding.
C20_Reset ==
    lastCall = "reset" =>
        /\ state = InitialRetryState
        /\ cancelledRef
        /\ timeoutRef = NoTimer
        /\ countdownRef = NoTimer
        /\ retryTimers = <<>>

\* C14 (backoff formula).  The delay passed to onRetry and waited before
\* retry k is min(initialDelay * backoffMultiplier^(k-1), maxDelay) with
\* exponential backoff, and initialDelay without.
C14_BackoffFormula ==
    calcRetry >= 1 =>
        calcDelay =
            IF calcOpts.useExponentialBackoff
            THEN Min(calcOpts.initialDelay
                       * (calcOpts.backoffMultiplier ^ (calcRetry - 1)),
                     calcOpts.maxDelay)
            ELSE calcOpts.initialDelay

\* C14 witness: the delay of the third retry was cut to maxDelay, below
\* initialDelay * backoffMultiplier^2 and above the first retry's delay.
C14_Witness ==
    /\ calcOpts.useExponentialBackoff
    /\ calcRetry = 3
    /\ calcOpts.initialDelay < calcDelay
    /\ calcDelay = calcOpts.maxDelay
    /\ calcDelay < calcOpts.initialDelay * calcOpts.backoffMultiplier
                      * calcOpts.backoffMultiplier

\* C15 (delay range).  The delay waited before any retry lies in
\* [0, maxDelay], for every configuration.
C15_DelayClamped ==
    calcRetry >= 1 => (0 <= calcDelay /\ calcDelay <= calcOpts.maxDelay)

(***************************************************************************)
(*                   Properties of useBatchedUpdates                       *)
(***************************************************************************)

\* The deferred deliveries outstanding in the timer queue, in firing order.
DeliverTimers(q) == SelectSeq(q, LAMBDA t : t.kind = "deliver")

\* The last step was an addUpdate() that did not take the first-update path.
AddedToBatch == lastOp.op = "addUpdate" /\ lastOp.trigger # "first"

\* The batch the reducer produced in the addUpdate() that was the last step.
ReducedBatch == Reduce(batchOpts, lastOp.prev, lastOp.u)

\* C6: at-most-once delivery. No update is handed to the consumer more than
\* once, whatever re-renders (with a new options identity), flushes, clears
\* and teardown happen.
C6_AtMostOnce == \A u \in Updates : count[u] <= 1

\* C7: flush by time. When the auto-flush timer delivers a batch built with
\* the appending reducer and without first-update flushing, the batch window
\* has elapsed since the first update, onFlush and then the consumer are
\* invoked once with all updates of the window in insertion order, each of
\* these updates has reached the consumer exactly once, and the batch is
\* empty afterwards.
C7_FlushByTime ==
    ( /\ lastOp.op = "flushTimer"
      /\ lastOp.trigger = "flushed"
      /\ batchOpts.reducer = "append"
      /\ ~batchOpts.flushOnFirst )
    => /\ sinceFirst = batchOpts.batchWindow
       /\ Len(lastOp.prev) < batchOpts.maxBatchSize
       /\ lastOp.prev = windowAdds
       /\ calls = Delivery(windowAdds)
       /\ \A u \in Range(windowAdds) : count[u] = 1
       /\ pendingUpdates = <<>>
       /\ ~hasPendingUpdatesRef

AddedWithSizeThree ==
    /\ AddedToBatch
    /\ batchOpts.maxBatchSize = 3
    /\ batchOpts.reducer = "append"

\* C9: with maxBatchSize = 3, three queued updates trigger no flush, and
\* adding a fourth while three are queued triggers an immediate flush whose
\* batch holds all four.
C9_FourthUpdateFlushes ==
    AddedWithSizeThree =>
       /\ Len(lastOp.prev) = 2 =>
             /\ lastOp.trigger # "size"
             /\ Len(pendingUpdates) = 3
       /\ Len(lastOp.prev) = 3 =>
             /\ lastOp.trigger = "size"
             /\ pendingUpdates = <<>>
             /\ Len(ReducedBatch) = 4

\* C9 as the code has it: with maxBatchSize = 3, adding the third update
\* while two are queued triggers an immediate flush whose batch holds all
\* three, and the batch is empty afterwards; with fewer queued no size flush
\* is triggered; three updates are never left queued.
C9_ThirdUpdateFlushes ==
    /\ AddedWithSizeThree =>
          /\ Len(lastOp.prev) = 2 =>
                /\ lastOp.trigger = "size"
                /\ pendingUpdates = <<>>
                /\ ReducedBatch = Append(lastOp.prev, lastOp.u)
                /\ \E i \in 1..Len(batchTimers) :
                      /\ batchTimers[i].kind = "deliver"
                      /\ batchTimers[i].wait = 0
                      /\ batchTimers[i].items = Append(lastOp.prev, lastOp.u)
          /\ Len(lastOp.prev) < 2 =>
                /\ lastOp.trigger # "size"
                /\ pendingUpdates = Append(lastOp.prev, lastOp.u)
    /\ batchOpts.maxBatchSize = 3 => Len(pendingUpdates) < 3

\* C9 witness: the third update was added to two queued ones under
\* maxBatchSize = 3 and triggered the size flush.
C9_Witness ==
    /\ AddedWithSizeThree
    /\ Len(lastOp.prev) = 2
    /\ lastOp.trigger = "size"
    /\ pendingUpdates = <<>>

FlushTimers(q) == SelectSeq(q, LAMBDA t : t.kind = "flush")
CountdownTimers(q) == SelectSeq(q, LAMBDA t : t.kind = "poll")

\* The last step delivered, or deferred the delivery of, a batch that
\* addUpdate() had armed the auto-flush timer for: a window expiry, a manual
\* flush(), a size trigger on a batch of two or more, or the teardown.
FlushedArmedBatch ==
    \/ lastOp.op \in {"flushTimer", "flush"} /\ lastOp.trigger = "flushed"
    \/ lastOp.op = "addUpdate" /\ lastOp.trigger = "size" /\ lastOp.prev # <<>>
    \/ lastOp.op = "unmount" /\ lastOp.prev # <<>>

\* C11: after a flush by any trigger, no auto-flush timer and no countdown
\* poller armed for the flushed batch is outstanding.
C11_FlushCancelsTimers ==
    FlushedArmedBatch =>
       /\ FlushTimers(batchTimers) = <<>>
       /\ CountdownTimers(batchTimers) = <<>>

\* C12: at most one auto-flush timer is outstanding, and timeoutRef holds
\* its handle.
C12_OneFlushTimer ==
    /\ Len(FlushTimers(batchTimers)) <= 1
    /\ \A i \in 1..Len(batchTimers) :
          batchTimers[i].kind = "flush" => batchTimers[i].id = batchTimeoutRef

\* C12 witness: the second addUpdate() found the batch empty although the
\* first had armed the timer (the reducer dropped the first update), armed
\* the timer anew, and one auto-flush timer is outstanding.
C12_Witness ==
    /\ batchOpts.reducer = "filter"
    /\ batchOpts.batchWindow = MaxBatchWindow
    /\ lastOp.op = "addUpdate"
    /\ lastOp.u = 2
    /\ lastOp.trigger = "armed"
    /\ Len(FlushTimers(batchTimers)) = 1
    /\ FlushTimers(batchTimers)[1].wait = MaxBatchWindow

(***************************************************************************)
(*                  Properties of cancel() and clear()                     *)
(***************************************************************************)

\* No run of the useRetry instance can still act.
NoOperationPending == \A r \in RunIds : ~Active(r)

\* The callbacks of useRetry invoked so far: per run, the number of
\* operation and shouldRetry calls and the onRetry and
\* onMaxAttemptsReached calls.
RetryCallbacks ==
    [ r \in RunIds |->
        << runs[r].calls, runs[r].srCalls, runs[r].onRetry, runs[r].onMax >> ]

\* C21: cancel() and clear() are idempotent. A cancel() that follows a
\* cancel() directly, or that is called while no operation is pending, leaves
\* the published RetryState as it was and invokes no callback; a clear() that
\* follows a clear() directly, or that is called on an empty batch, leaves
\* the pending batch and timeUntilFlush as they were and invokes neither
\* onFlush nor the consumer.
C21_IdempotentCancelClear ==
    [][ /\ ( /\ lastCall' = "cancel"
             /\ (lastCall = "cancel" \/ NoOperationPending) ) =>
              /\ state' = state
              /\ RetryCallbacks' = RetryCallbacks
        /\ ( /\ lastOp'.op = "clear"
             /\ (lastOp.op = "clear" \/ pendingUpdates = <<>>) ) =>
              /\ pendingUpdates' = pendingUpdates
              /\ timeUntilFlush' = timeUntilFlush
              /\ count' = count
              /\ calls' = <<>> ]_vars

(***************************************************************************)
(*            Properties of flush(), clear() and the triggers              *)
(***************************************************************************)

\* C22: onFlush and the consumer are never invoked with an empty batch, and
\* the size passed to onFlush is the length of the batch. A flush() on an
\* empty batch and an auto-flush timer that finds the batch empty invoke no
\* callback and change neither the published state nor the refs nor any
\* other timer; an unmount with an empty batch invokes no callback and
\* leaves the published state as it was.
C22_NoEmptyFlush ==
    [][ /\ \A i \in 1..Len(calls') :
              /\ calls'[i].items # <<>>
              /\ calls'[i].size = Len(calls'[i].items)
        /\ ( /\ lastOp'.op \in {"flush", "flushTimer"}
             /\ pendingUpdates = <<>> ) =>
              /\ calls' = <<>>
              /\ batchTimers' = IF lastOp'.op = "flush" THEN batchTimers
                                ELSE Tail(batchTimers)
              /\ UNCHANGED << pendingUpdates, timeUntilFlush, count,
                              batchTimeoutRef, batchCountdownRef,
                              isFirstUpdateRef, hasPendingUpdatesRef >>
        /\ (lastOp'.op = "unmount" /\ pendingUpdates = <<>>) =>
              /\ calls' = <<>>
              /\ UNCHANGED << pendingUpdates, timeUntilFlush, count >> ]_vars

\* C22 witness: the auto-flush timer armed for a batch fired after a size
\* flush had emptied that batch, and invoked nothing.
C22_Witness ==
    /\ lastOp.op = "flushTimer"
    /\ lastOp.trigger = "none"
    /\ batchOpts.reducer = "append"
    /\ Len(windowAdds) >= 2
    /\ pendingUpdates = <<>>
    /\ calls = <<>>

\* Update u is held by the hook: it is in the pending batch, or in the batch
\* of a deferred delivery that has not fired yet.
Held(u) ==
    \/ u \in Range(pendingUpdates)
    \/ \E i \in 1..Len(batchTimers) :
          batchTimers[i].kind = "deliver" /\ u \in Range(batchTimers[i].items)

FirstUpdateNext ==
    \/ lastOp.op = "mount"
    \/ lastOp.op \in {"flush", "flushTimer"} /\ lastOp.trigger = "flushed"
    \/ lastOp.op = "clear"

\* C25: with flushOnFirst, the first-update flag is set at mount and after a
\* flush() or a batch-window flush that delivered a batch and after a
\* clear(), the batch is empty whenever it is set, and only addUpdate(),
\* flush(), the auto-flush timer and clear() change it. An addUpdate() that
\* finds it set defers, with delay 0, the delivery of the update alone,
\* leaves the batch empty and unsets the flag; an addUpdate() that finds it
\* unset does not take that path: below the size threshold its update is
\* kept in the pending batch and is in no deferred delivery.
C25_FlushOnFirst ==
    [][ batchOpts.flushOnFirst =>
          /\ FirstUpdateNext' => isFirstUpdateRef'
          /\ isFirstUpdateRef' => pendingUpdates' = <<>>
          /\ lastOp'.op \notin {"addUpdate", "flush", "flushTimer", "clear"}
                => isFirstUpdateRef' = isFirstUpdateRef
          /\ lastOp'.op = "addUpdate" =>
                IF isFirstUpdateRef
                THEN /\ lastOp'.trigger = "first"
                     /\ pendingUpdates' = <<>>
                     /\ ~isFirstUpdateRef'
                     /\ Len(SelectSeq(batchTimers', LAMBDA t :
                              /\ t.kind = "deliver"
                              /\ t.wait = 0
                              /\ t.items = << lastOp'.u >>)) = 1
                     /\ Len(DeliverTimers(batchTimers'))
                           = Len(DeliverTimers(batchTimers)) + 1
                ELSE /\ lastOp'.trigger # "first"
                     /\ Len(Reduce(batchOpts, pendingUpdates, lastOp'.u))
                           < batchOpts.maxBatchSize =>
                          /\ pendingUpdates'
                                = Reduce(batchOpts, pendingUpdates, lastOp'.u)
                          /\ DeliverTimers(batchTimers')
                                = DeliverTimers(batchTimers)
          /\ (lastOp'.op = "deliver" /\ Len(lastOp'.prev) = 1) =>
                calls' = << [ fn |-> "onFlush", items |-> lastOp'.prev,
                              size |-> 1 ],
                            [ fn |-> "consumer", items |-> lastOp'.prev,
                              size |-> 1 ] >> ]_vars

\* C25 witness: with flushOnFirst, update 1 was delivered alone, update 2 was
\* batched and delivered by a flush() before its window expired, and
\* update 3 has just been delivered alone.
C25_Witness ==
    /\ batchOpts.flushOnFirst
    /\ batchOpts.maxBatchSize >= 2
    /\ batchOpts.reducer = "append"
    /\ rerenders = 0
    /\ lastOp.op = "deliver"
    /\ lastOp.prev = << 3 >>
    /\ calls = Delivery(<< 3 >>)
    /\ windowAdds = << 3 >>
    /\ sinceFirst < batchOpts.batchWindow
    /\ \A u \in 1..3 : count[u] = 1

\* C26: no addUpdate() step invokes onFlush or the consumer. With
\* batchWindow = 0 an addUpdate() on the normal path keeps the reduced batch
\* pending; while an update is pending and the hook is mounted, exactly one
\* auto-flush timer is outstanding and it is due at once, so that no time
\* passes before it fires; when it fires it delivers the whole pending
\* batch, onFlush first, and the pending batch is empty afterwards.
C26_ZeroWindow ==
    [][ /\ lastOp'.op = "addUpdate" => (calls' = <<>> /\ count' = count)
        /\ batchOpts.batchWindow = 0 =>
              /\ ( /\ lastOp'.op = "addUpdate"
                   /\ lastOp'.trigger \notin {"first", "size"} ) =>
                    /\ pendingUpdates'
                          = Reduce(batchOpts, pendingUpdates, lastOp'.u)
                    /\ lastOp'.trigger = "armed" => timeUntilFlush' = 0
              /\ (pendingUpdates' # <<>> /\ mounted') =>
                    /\ Len(FlushTimers(batchTimers')) = 1
                    /\ FlushTimers(batchTimers')[1].wait = 0
                    /\ FlushTimers(batchTimers')[1].id = batchTimeoutRef'
              /\ (lastOp'.op = "flushTimer" /\ pendingUpdates # <<>>) =>
                    /\ calls' = << [ fn |-> "onFlush",
                                     items |-> pendingUpdates,
                                     size |-> Len(pendingUpdates) ],
                                   [ fn |-> "consumer",
                                     items |-> pendingUpdates,
                                     size |-> Len(pendingUpdates) ] >>
                    /\ pendingUpdates' = <<>>
                    /\ sinceFirst' = 0
              /\ CanElapse(batchTimers') => pendingUpdates' = <<>> ]_vars

\* C26 witness: with batchWindow = 0, two updates added one after the other
\* were held and have just been delivered together by the auto-flush timer.
C26_Witness ==
    /\ batchOpts.batchWindow = 0
    /\ lastOp.op = "flushTimer"
    /\ lastOp.trigger = "flushed"
    /\ lastOp.prev = << 1, 2 >>
    /\ calls = Delivery(<< 1, 2 >>)
    /\ pendingUpdates = <<>>
    /\ sinceFirst = 0

\* C33: under flushOnFirst the batch delivered for the first update is the
\* reducer's result reducer([], update), for every reducer. Right after an
\* addUpdate that took the first-update path, the delivery it deferred
\* carries Reduce(batchOpts, <<>>, update).
C33_FirstFlushReduced ==
    (lastOp.op = "addUpdate" /\ lastOp.trigger = "first") =>
        \E i \in 1..Len(batchTimers) :
            /\ batchTimers[i].kind = "deliver"
            /\ batchTimers[i].items = Reduce(batchOpts, <<>>, lastOp.u)
            /\ \A j \in 1..Len(batchTimers) :
                  (batchTimers[j].kind = "deliver" /\ lastOp.u \in Range(batchTimers[j].items))
                     => j = i

\* The auto-flush timers and countdown pollers that are outstanding.
ArmedTimers(q) == SelectSeq(q, LAMBDA t : t.kind \in {"flush", "poll"})

\* C34: the auto-flush timer and the countdown are armed only by an
\* addUpdate() that takes the batch from empty to non-empty; an addUpdate()
\* that finds the batch non-empty leaves the timers and their handles as
\* they are; and a batch-window flush that delivers a batch comes
\* batchWindow after the first update of that batch.
C34_ArmedByFirstUpdate ==
    [][ /\ ( /\ lastOp'.op = "addUpdate"
             /\ ArmedTimers(batchTimers') # ArmedTimers(batchTimers) )
           => (pendingUpdates = <<>> /\ pendingUpdates' # <<>>)
        /\ (lastOp'.op = "addUpdate" /\ pendingUpdates # <<>>)
           => /\ ArmedTimers(batchTimers') = ArmedTimers(batchTimers)
              /\ batchTimeoutRef' = batchTimeoutRef
              /\ batchCountdownRef' = batchCountdownRef
        /\ (lastOp'.op = "flushTimer" /\ lastOp'.trigger = "flushed")
           => /\ sinceFirst' = batchOpts.batchWindow
              /\ lastOp'.prev[1] = windowAdds'[1] ]_vars

(***************************************************************************)
(*                  Further properties of useRetry                         *)
(***************************************************************************)

\* C27: cancellation terminates the cancelled run. A run during which
\* cancel() was called makes no further operation call, invokes onRetry no
\* more and schedules no retry, whatever happens afterwards: its attempt in
\* flight failing, or another execute() being called.
C27_CancelTerminates ==
    [][ \A r \in RunIds :
          runs[r].touched =>
             /\ runs'[r].calls = runs[r].calls
             /\ runs'[r].onRetry = runs[r].onRetry
             /\ ~(runs[r].phase = "attempting" /\ runs'[r].phase = "waiting")
             /\ \A i \in 1..Len(retryTimers') :
                   (retryTimers'[i].kind = "retry" /\ retryTimers'[i].run = r)
                      => \E j \in 1..Len(retryTimers) :
                            retryTimers[j] = retryTimers'[i] ]_vars

\* The outstanding timers of one kind of the useRetry instance.
RetryTimersOfKind(kind) ==
    { i \in 1..Len(retryTimers) : retryTimers[i].kind = kind }

\* C32: for any interleaving of execute(), cancel() and reset(), also with
\* execute() called while an earlier run is attempting or waiting, at most
\* one retry-wait timer and at most one countdown poller are outstanding.
C32_OneTimerOnePoller ==
    /\ Cardinality(RetryTimersOfKind("retry")) <= 1
    /\ Cardinality(RetryTimersOfKind("poll")) <= 1

(***************************************************************************)
(*                       Properties of useThrottle                         *)
(***************************************************************************)

\* C28: at most one callback invocation per delay. Every callback
\* invocation but the first, whether made by a call of the throttled
\* function or by the trailing timer, comes at least delay after the
\* invocation before it.
C28_AtMostOncePerDelay ==
    thrInvocations >= 2 => thrLast.gap >= thrDelay


(***************************************************************************)
(*                       Properties of useTimeout                          *)
(***************************************************************************)

\* C29: each run invokes the callback exactly once, when the time spent
\* counting (paused intervals excluded) reaches delay. Until reset() is
\* called: the callback is invoked only while the timeout is counting, only
\* when the time spent counting equals delay and only if it was not invoked
\* before, and the time spent counting does not pass delay without the
\* callback being invoked.
C29_ExactlyOnceAtDelay ==
    [][ ~tmoWasReset' =>
          /\ tmoInvoked' # tmoInvoked =>
                tmoCounting /\ tmoRan = tmoDelay /\ tmoInvoked = 0
          /\ tmoRan' > tmoRan => tmoRan < tmoDelay ]_vars


(***************************************************************************)
(*                     Properties of useDelayedState                       *)
(***************************************************************************)

\* The delayed-update timers that are outstanding.
ApplyTimers == { i \in 1..Len(dsTimers) : dsTimers[i].kind = "apply" }

\* A step that is a setValue call.
SetValueStep ==
    /\ dsCalls' = dsCalls + 1
    /\ dsPendingValueRef' = dsLatest'
    /\ dsSinceSet' = 0
    /\ dsAwaiting' \/ (dsIsFirstUpdateRef /\ ~dsIsFirstUpdateRef')

\* While a delayed update is awaited: isPending is true, immediateValue is
\* the latest set value, and the one delayed-update timer carries the latest
\* set value and is due delay after the latest setValue.
AwaitingLatest ==
    dsAwaiting =>
        /\ dsIsPending
        /\ dsImmediateValue = dsLatest
        /\ \E i \in ApplyTimers :
              /\ dsTimers[i].val = dsLatest
              /\ dsTimers[i].wait = dsDelay - dsSinceSet
              /\ dsTimers[i].id = dsTimeoutRef

\* C30: a setValue made while a delayed update is pending replaces it. At
\* most one delayed-update timer is outstanding; value only ever changes to
\* the latest set value; the delayed update is applied exactly delay after
\* the latest setValue, and that is the only way the wait ends short of
\* cancel(), setImmediate() and the unmount; immediateValue is the latest
\* set value from the setValue call on, and isPending is true until the
\* delayed update is applied.
C30_LatestValueWins ==
    [][ /\ Cardinality(ApplyTimers') <= 1
        /\ AwaitingLatest'
        /\ SetValueStep =>
              /\ dsImmediateValue' = dsLatest'
              /\ dsAwaiting' \/ dsValue' = dsLatest'
        /\ dsValue' # dsValue => dsValue' = dsLatest'
        /\ (dsAwaiting /\ ~dsAwaiting' /\ dsCalls' = dsCalls /\ dsMounted') =>
              /\ dsValue' = dsLatest
              /\ dsSinceSet = dsDelay
              /\ ~dsIsPending'
        /\ (dsAwaiting /\ dsSinceSet' > dsSinceSet) =>
              dsSinceSet < dsDelay ]_vars

\* Two setValue calls, the second one made with another value while the
\* first one's delayed update was pending, and the second value applied
\* delay after the second call.
C30_Witness ==
    /\ dsCalls = 2
    /\ dsDelay > 0
    /\ dsSuperseded # NoPendingValue
    /\ dsSuperseded # dsLatest
    /\ ~dsAwaiting
    /\ dsMounted
    /\ dsValue = dsLatest
    /\ dsSinceSet = dsDelay
    /\ ~dsIsPending


(***************************************************************************)
(*                  Properties of the countdown pollers                    *)
(***************************************************************************)

\* The outstanding countdown pollers of run r of the useRetry instance.
PollsOf(q, r) == { i \in 1..Len(q) : q[i].kind = "poll" /\ q[i].run = r }

\* The step is the firing of the countdown poller at the head of the queue.
RetryPollFired ==
    /\ lastCall' = "none"
    /\ TimerDue(retryTimers)
    /\ retryTimers[1].kind = "poll"
    /\ (retryTimers' = <<>> \/ retryTimers'[1] # retryTimers[1])

\* The retry countdown: a poller that finds no time remaining is not armed
\* again, and no poller is armed for a run whose backoff wait was ended by
\* cancel() or reset().
RetryPollingStops ==
    \A r \in RunIds :
        LET fired == RetryPollFired /\ retryTimers[1].run = r
            ended == runs[r].cwait # "no" /\ runs'[r].cwait # "no"
            scheduled == Cardinality(PollsOf(retryTimers', r))
                           > Cardinality(PollsOf(retryTimers, r))
                             - (IF fired THEN 1 ELSE 0)
        IN  /\ (fired /\ retryTimers[1].left = 0) => ~scheduled
            /\ ended => ~scheduled

\* The batch countdown: a poller is armed again only while time remains,
\* only addUpdate() and the poller itself arm one, and none is outstanding
\* after a flush() that delivered, a clear() or the unmount.
BatchPollingStops ==
    /\ ( /\ lastOp'.op = "countdown"
         /\ Len(CountdownTimers(batchTimers'))
               >= Len(CountdownTimers(batchTimers)) )
       => /\ timeUntilFlush' > 0
          /\ timeUntilFlush' = batchOpts.batchWindow - startElapsed
    /\ lastOp'.op \notin {"addUpdate", "countdown"}
       => Len(CountdownTimers(batchTimers'))
             <= Len(CountdownTimers(batchTimers))
    /\ ( \/ lastOp'.op \in {"clear", "unmount"}
         \/ lastOp'.op = "flush" /\ lastOp'.trigger = "flushed" )
       => CountdownTimers(batchTimers') = <<>>
    /\ ~mounted => CountdownTimers(batchTimers) = <<>>

\* C35: countdown polling terminates, for the retry countdown and for the
\* batch countdown. Once the remaining time is 0, or the wait was ended by
\* cancel(), reset(), flush(), clear() or the teardown, no further poll is
\* scheduled.
C35_PollingTerminates ==
    [][RetryPollingStops /\ BatchPollingStops]_vars

-----------------------------------------------------------------------------
\* Properties of the delivery of useBatchedUpdates

\* An update addUpdate has taken: it is kept in the pending batch, or it is
\* carried by a deferred delivery (first-update or size trigger).
Accepted(u) ==
    \/ u \in Range(pendingUpdates)
    \/ \E i \in 1..Len(batchTimers) :
          /\ batchTimers[i].kind = "deliver"
          /\ u \in Range(batchTimers[i].items)

\* clear() has just thrown the update away.
Discarded(u) == lastOp.op = "clear" /\ u \in Range(lastOp.prev)

\* A mounted instance with a non-empty batch has its auto-flush timer
\* outstanding, tracked by timeoutRef.
PendingHasTimer ==
    (mounted /\ pendingUpdates # << >>) =>
        \E i \in 1..Len(batchTimers) :
            /\ batchTimers[i].kind = "flush"
            /\ batchTimers[i].id = batchTimeoutRef

\* C36: no update is lost: while the pending batch is non-empty an auto-flush
\* timer is outstanding, and under fair timer firing every update addUpdate
\* accepted is eventually handed to the consumer unless clear() discards it.
C36_NoUpdateLost ==
    /\ []PendingHasTimer
    /\ \A u \in Updates : Accepted(u) ~> (count[u] >= 1 \/ Discarded(u))

\* A batch of two updates was delivered by the auto-flush timer.
C36_Witness ==
    /\ lastOp.op = "flushTimer"
    /\ lastOp.trigger = "flushed"
    /\ Len(lastOp.prev) >= 2
    /\ \A u \in Range(lastOp.prev) : count[u] >= 1


\* C37: whenever the pending batch of a mounted instance is empty,
\* timeUntilFlush is 0: initially, after every kind of flush and after clear().
C37_EmptyBatchZeroCountdown ==
    (mounted /\ pendingUpdates = << >>) => timeUntilFlush = 0

\* C38: deferred deliveries do not outlive clear() or the instance: right after
\* clear(), and at any time after teardown, no deferred delivery (size trigger
\* or first-update trigger) hands earlier updates to onFlush and the consumer.
C38_NoDeliveryAfterClear ==
    [][ (lastOp.op = "clear" \/ ~mounted) => lastOp'.op # "deliver" ]_vars

(***************************************************************************)
(*                 Properties of useSequentialExecution                    *)
(***************************************************************************)

\* The outstanding step timers.
StepTimers(q) == SelectSeq(q, LAMBDA t : t.kind = "step")

\* The step was a call of start().
StartCalled == seqLastOp'.op = "start"

\* Step 0 is scheduled after its timeout, by the timer timeoutRef names.
FirstStepScheduled ==
    \E i \in 1..Len(seqTimers') :
        /\ seqTimers'[i] = StepTimer(seqTimeoutRef', 0, StepTimeout(0))

\* C40: start() called while the sequence is not running begins execution
\* (isRunning becomes true and step 0 is scheduled after its timeout), also
\* after a loop = false sequence has run to completion; start() while
\* running changes nothing.
C40_StartBegins ==
    [][ StartCalled =>
          IF seqIsRunning
          THEN UNCHANGED << seqIsRunning, seqCurrentStepIndex,
                            seqCyclesCompleted, seqTimeRemaining,
                            seqTimeoutRef, seqTimers >>
          ELSE seqIsRunning' /\ FirstStepScheduled ]_vars


\* C39: after stop() or reset(), and until start() is called again, no step
\* timer is outstanding and no step function is invoked, also when stop()
\* or reset() was called while an asynchronous step function was running.
C39_StoppedStaysStopped ==
    [][ seqStopped =>
          /\ StepTimers(seqTimers) = << >>
          /\ seqLastOp'.op # "step" ]_vars


\* The step calls the function of step i.
StepInvoked(i) == seqLastOp'.op = "step" /\ seqLastOp'.step = i

\* With the step the function of step i has completed.
StepCompleted(i) ==
    /\ seqLastOp'.step = i
    /\ \/ seqLastOp'.op = "step" /\ seqLastOp'.sync
       \/ seqLastOp'.op = "settle"

\* The last index of the steps array.
LastStep == Len(seqSteps) - 1

\* C31: steps run strictly in index order: step i is invoked only after
\* step i-1 (for step 0: the last step, or nothing since start()) has
\* completed and the timeout of step i has then elapsed; completing the last
\* step adds one to cyclesCompleted and, with loop = false, ends the run
\* with isRunning = false, while with loop = true it wraps to step 0.
C31_StepsInOrder ==
    [][ \A i \in 0..(MaxSteps - 1) :
          /\ StepInvoked(i) =>
                /\ IF i = 0
                   THEN seqLastInvoked \in {NoStep, LastStep}
                   ELSE seqLastInvoked = i - 1
                /\ seqLastInvoked # NoStep => seqRunning[seqLastInvoked] = 0
                /\ seqSinceStart = StepTimeout(i)
          /\ (StepCompleted(i) /\ i = LastStep /\ seqMounted) =>
                /\ seqCyclesCompleted' = seqCyclesCompleted + 1
                /\ IF seqLoop
                   THEN /\ seqCurrentStepIndex' = 0
                        /\ FirstStepScheduled
                   ELSE ~seqIsRunning' ]_vars

=============================================================================
